---------------------------- MODULE Spec2Model ----------------------------
(***************************************************************************)
(* Collaborative spreadsheet: recalculation engine (spreadsheet-engine.js) *)
(* over a Yjs document, synchronised by Libp2pProvider                     *)
(* (yjs-libp2p-provider.js) through a best-effort pubsub topic.            *)
(*                                                                         *)
(* Texts (cell coordinates, formula source, literal input, map keys) are   *)
(* sequences of one-character strings, so that the regular expressions and *)
(* the textual substitution of evaluate are modelled by what they do.      *)
(***************************************************************************)
EXTENDS Integers, Sequences, FiniteSets, TLC

(***************************************************************************)
(* Bounds of the model.                                                    *)
(***************************************************************************)
\* Largest magnitude of a finite number: stands for Number.MAX_VALUE, above
\* which a JavaScript result is Infinity and isFinite(result) is false.
MaxNum == 40
\* Number of local edits (setCell / clearCell calls) in one behaviour.
MaxEdits == 3
MaxEngineEdits == 4

(***************************************************************************)
(* Characters and texts.                                                   *)
(***************************************************************************)
Upper == <<"A","B","C","D","E","F","G","H","I","J","K","L","M",
           "N","O","P","Q","R","S","T","U","V","W","X","Y","Z">>
Digit == <<"0","1","2","3","4","5","6","7","8","9">>

RangeOf(seq) == { seq[i] : i \in DOMAIN seq }
IsUpper(c) == c \in RangeOf(Upper)
IsLower(c) == c \in {"a","b","c","d","e","f","g","h","i","j","k","l","m",
                      "n","o","p","q","r","s","t","u","v","w","x","y","z"}
IsDigit(c) == c \in RangeOf(Digit)
\* \w of a regular expression
IsWord(c) == IsUpper(c) \/ IsLower(c) \/ IsDigit(c) \/ c = "_"
IsSpace(c) == c = " "

Drop(s, n) == IF n >= Len(s) THEN <<>> ELSE SubSeq(s, n + 1, Len(s))
Take(s, n) == IF n <= 0 THEN <<>> ELSE SubSeq(s, 1, IF n > Len(s) THEN Len(s) ELSE n)

\* Length of the longest prefix of s starting at position i whose characters
\* satisfy the class cls ("U" upper-case letter, "D" digit, "L" any letter).
RECURSIVE RunLen(_, _, _)
RunLen(s, i, cls) ==
  IF i > Len(s) THEN 0
  ELSE IF (cls = "U" /\ IsUpper(s[i])) \/ (cls = "D" /\ IsDigit(s[i]))
          \/ (cls = "L" /\ (IsUpper(s[i]) \/ IsLower(s[i])))
       THEN 1 + RunLen(s, i + 1, cls)
       ELSE 0

\* Decimal text of a natural number and of an integer (Number.prototype.toString)
RECURSIVE NatToText(_)
NatToText(n) == IF n < 10 THEN <<Digit[n + 1]>>
                ELSE NatToText(n \div 10) \o <<Digit[(n % 10) + 1]>>
numToString(n) == IF n < 0 THEN <<"-">> \o NatToText(0 - n) ELSE NatToText(n)

\* Value of a text of digits
RECURSIVE DigitsToNat(_)
DigitsToNat(s) == IF s = <<>> THEN 0
                  ELSE 10 * DigitsToNat(Take(s, Len(s) - 1))
                       + (CHOOSE i \in 1..10 : Digit[i] = s[Len(s)]) - 1

(***************************************************************************)
(* JavaScript values held by the store and returned by evaluate.           *)
(***************************************************************************)
Undef  == [k |-> "undef", n |-> 0, s |-> <<>>]
Null   == [k |-> "null", n |-> 0, s |-> <<>>]
Num(n) == [k |-> "num", n |-> n, s |-> <<>>]
Str(s) == [k |-> "str", n |-> 0, s |-> s]
True   == [k |-> "bool", n |-> 1, s |-> <<>>]
False  == [k |-> "bool", n |-> 0, s |-> <<>>]
YMap   == [k |-> "map", n |-> 0, s |-> <<>>]

CIRCULAR == <<"#","C","I","R","C","U","L","A","R","!">>
ERROR    == <<"#","E","R","R","O","R","!">>

\* JavaScript truthiness, as used by  x || default  and by  if (x)
Truthy(v) == CASE v.k = "num" -> v.n # 0
               [] v.k = "str" -> v.s # <<>>
               [] v.k = "bool" -> v.n = 1
               [] v.k = "map" -> TRUE
               [] OTHER -> FALSE

\* parseFloat: the longest numeric prefix after optional blanks and sign;
\* nan when there is none.  A number argument is converted to text first.
RECURSIVE SkipSpaces(_)
SkipSpaces(s) == IF s # <<>> /\ IsSpace(s[1]) THEN SkipSpaces(Tail(s)) ELSE s
parseFloat(v) ==
  LET \* the digits u after the sign, d of them numeric
      OfDigits(neg, u, d) ==
        IF d = 0 THEN [nan |-> TRUE, v |-> 0]
        ELSE [nan |-> FALSE, v |-> (IF neg THEN 0 - 1 ELSE 1) * DigitsToNat(Take(u, d))]
      OfSigned(neg, u) == OfDigits(neg, u, RunLen(u, 1, "D"))
      OfTrimmed(t) ==
        OfSigned(t # <<>> /\ t[1] = "-", IF t # <<>> /\ t[1] \in {"-", "+"} THEN Tail(t) ELSE t)
  IN CASE v.k = "num" -> [nan |-> FALSE, v |-> v.n]
       [] v.k = "str" -> OfTrimmed(SkipSpaces(v.s))
       [] OTHER -> [nan |-> TRUE, v |-> 0]

(***************************************************************************)
(* Coordinates: colToLetter, letterToCol, coordToA1, a1ToCoord.            *)
(***************************************************************************)
\* A conversion in plain base 26, in which A is the digit zero
colToLetterBase26(col) ==
  LET Digits(n) == IF n < 26 THEN <<Upper[n + 1]>>
                   ELSE <<Upper[(n \div 26) + 1], Upper[(n % 26) + 1]>>
  IN Digits(col)

RECURSIVE colToLetter(_)
colToLetter(col) ==
  IF col < 0 THEN <<>>
  ELSE colToLetter((col \div 26) - 1) \o <<Upper[(col % 26) + 1]>>

RECURSIVE letterToColAcc(_, _)
letterToColAcc(letter, col) ==
  IF letter = <<>> THEN col
  ELSE letterToColAcc(Tail(letter), col * 26 + (CHOOSE i \in 1..26 : Upper[i] = letter[1]))
letterToCol(letter) == letterToColAcc(letter, 0) - 1

coordToA1(row, col) == colToLetter(col) \o numToString(row + 1)

\* /^([A-Z]+)(\d+)$/ applied to a text that matches it (the callers pass
\* matches of the reference patterns)
a1ToCoord(a1) ==
  LET Split(u) == [col |-> letterToCol(Take(a1, u)), row |-> DigitsToNat(Drop(a1, u)) - 1]
  IN Split(RunLen(a1, 1, "U"))


(***************************************************************************)
(* The Yjs document.  An item is one entry written into a Y.Map: the       *)
(* top-level map 'cells' (parent Root) holds one nested Y.Map per          *)
(* coordinate, and a nested map (parent = the id of the item that created  *)
(* it) holds the fields value, formula and error.  Per map key the items   *)
(* form a list; the last item of the list is the current entry.            *)
(***************************************************************************)
Root  == <<0, 0>>
NoId  == <<0, 0>>
VALUE   == <<"v","a","l","u","e">>
FORMULA == <<"f","o","r","m","u","l","a">>
ERRORF  == <<"e","r","r","o","r">>

EmptyFn == [x \in {} |-> NoId]
EmptyDoc == [items |-> EmptyFn, del |-> {}, lists |-> EmptyFn, pend |-> {}, pendDs |-> {}]

ListOf(d, p, key) == IF <<p, key>> \in DOMAIN d.lists THEN d.lists[<<p, key>>] ELSE <<>>
LastOf(d, p, key) ==
  LET LastIn(l) == IF l = <<>> THEN NoId ELSE l[Len(l)] IN LastIn(ListOf(d, p, key))

\* the item id unless it is none or deleted
Live(d, id) == IF id = NoId \/ id \in d.del THEN NoId ELSE id

\* Y.Map.get(key): the content of the last item of the key unless deleted
YGet(d, p, key) ==
  LET ValueOf(id) == IF id = NoId THEN Undef ELSE d.items[id].val
  IN ValueOf(Live(d, LastOf(d, p, key)))

\* this.cells.get(coord): the id of the nested Y.Map of coord, NoId when absent
CellMap(d, coord) == Live(d, LastOf(d, Root, coord))

\* keys of this.cells.entries()
CellKeys(d) == { pk[2] : pk \in { q \in DOMAIN d.lists : q[1] = Root /\ CellMap(d, q[2]) # NoId } }

\* this.cells.get(coord)?.get(f)
Field(d, coord, f) ==
  LET FieldOf(m) == IF m = NoId THEN Undef ELSE YGet(d, m, f) IN FieldOf(CellMap(d, coord))

\* SpreadsheetEngine.getCell
getCell(d, coord) ==
  LET OrElse(v, dflt) == IF Truthy(v) THEN v ELSE dflt
      CellOf(m) ==
        IF m = NoId
        THEN [value |-> Str(<<>>), formula |-> Null, error |-> False]
        ELSE [value   |-> OrElse(YGet(d, m, VALUE), Str(<<>>)),
              formula |-> OrElse(YGet(d, m, FORMULA), Null),
              error   |-> OrElse(YGet(d, m, ERRORF), False)]
  IN CellOf(CellMap(d, coord))

\* SpreadsheetEngine.getAllCells
getAllCells(d) == [c \in CellKeys(d) |-> getCell(d, c)]

(***************************************************************************)
(* Reference parser: parseCellRefs, parseRange, extractReferences.         *)
(***************************************************************************)
\* Length of a match of [A-Z]+\d+ at position i of s (0: no match).  With ci
\* the letters match case-insensitively (the /i flag of the SUM pattern).
RefLenAt(s, i, ci) ==
  LET Both(u, d) == IF u >= 1 /\ d >= 1 THEN u + d ELSE 0
      After(u) == Both(u, RunLen(s, i + u, "D"))
  IN After(RunLen(s, i, IF ci THEN "L" ELSE "U"))

\* n when a match of length n at i lies between two \b (its first and last
\* characters are word characters), 0 otherwise
Bounded(s, i, n) ==
  IF n > 0 /\ (i = 1 \/ ~IsWord(s[i - 1])) /\ (i + n > Len(s) \/ ~IsWord(s[i + n]))
  THEN n ELSE 0
\* Length of a match of \b([A-Z]+\d+)\b at i
CellRefAt(s, i) == Bounded(s, i, RefLenAt(s, i, FALSE))

\* Length of a match of [A-Z]+\d+:[A-Z]+\d+ at i
RangeLenAt(s, i, ci) ==
  LET Both(a, b) == IF b > 0 THEN a + 1 + b ELSE 0
      After(a) ==
        IF a > 0 /\ i + a <= Len(s) /\ s[i + a] = ":"
        THEN Both(a, RefLenAt(s, i + a + 1, ci)) ELSE 0
  IN After(RefLenAt(s, i, ci))

RangeRefAt(s, i) == Bounded(s, i, RangeLenAt(s, i, FALSE))

\* Append the elements of seq that acc lacks, in order (Set.add in insertion order)
RECURSIVE AddAll(_, _)
AddAll(acc, seq) ==
  IF seq = <<>> THEN acc
  ELSE AddAll(IF seq[1] \in RangeOf(acc) THEN acc ELSE Append(acc, seq[1]), Tail(seq))

\* parseCellRefs: every match of /\b([A-Z]+\d+)\b/g, left to right
RECURSIVE parseCellRefsFrom(_, _), CellRefsMatch(_, _, _)
parseCellRefsFrom(s, i) ==
  IF i > Len(s) THEN <<>> ELSE CellRefsMatch(s, i, CellRefAt(s, i))
CellRefsMatch(s, i, n) ==
  IF n > 0 THEN <<SubSeq(s, i, i + n - 1)>> \o parseCellRefsFrom(s, i + n)
  ELSE parseCellRefsFrom(s, i + 1)
parseCellRefs(formula) == parseCellRefsFrom(formula, 1)

\* the range pattern of extractReferences at i: \b([A-Z]+\d+:[A-Z]+\d+)\b

\* The cells of rows r..r1 and columns c0..c1, row by row (the two for loops)
RECURSIVE RectFrom(_, _, _, _, _)
RectFrom(r, c, c0, r1, c1) ==
  IF r > r1 THEN <<>>
  ELSE IF c > c1 THEN RectFrom(r + 1, c0, c0, r1, c1)
  ELSE <<coordToA1(r, c)>> \o RectFrom(r, c + 1, c0, r1, c1)

\* parseRange: the cells of the range by the two for loops, rows
\* start.row..end.row and columns start.col..end.col; [range] when the text
\* does not match
parseRange(range) ==
  LET Loops(c) == RectFrom(c.start.row, c.start.col, c.start.col, c.end.row, c.end.col)
      \* /^([A-Z]+\d+):([A-Z]+\d+)$/
      IsRange(n) == n > 0 /\ RangeLenAt(range, 1, FALSE) = n
      \* the two corners: match[1] and match[2] through a1ToCoord
      Corners(a) == [start |-> a1ToCoord(Take(range, a)), end |-> a1ToCoord(Drop(range, a + 1))]
  IN IF IsRange(Len(range)) THEN Loops(Corners(RefLenAt(range, 1, FALSE))) ELSE <<range>>

\* the range loop of extractReferences: every match of the range pattern
RECURSIVE rangeRefsFrom(_, _), RangeRefsMatch(_, _, _)
rangeRefsFrom(s, i) ==
  IF i > Len(s) THEN <<>> ELSE RangeRefsMatch(s, i, RangeRefAt(s, i))
RangeRefsMatch(s, i, n) ==
  IF n > 0 THEN parseRange(SubSeq(s, i, i + n - 1)) \o rangeRefsFrom(s, i + n)
  ELSE rangeRefsFrom(s, i + 1)

\* SpreadsheetEngine.extractReferences: the references in insertion order
extractReferences(formula) ==
  AddAll(AddAll(<<>>, rangeRefsFrom(formula, 1)), parseCellRefs(formula))


(***************************************************************************)
(* evaluate: textual substitution, then the arithmetic expression that     *)
(* Function('"use strict"; return (' + expr + ')')() computes.             *)
(***************************************************************************)
\* String.prototype.trim
RECURSIVE TrimRight(_)
TrimRight(s) == IF s # <<>> /\ IsSpace(s[Len(s)]) THEN TrimRight(Take(s, Len(s) - 1)) ELSE s

\* the numeric value a cell contributes: parseFloat(getCell(c).value) || 0
NumericOf(d, coord) ==
  LET NanAsZero(num) == IF num.nan THEN 0 ELSE num.v
  IN NanAsZero(parseFloat(getCell(d, coord).value))

\* SUM that stops at the first cell of the range
SumFirst(d, cells) == IF cells = <<>> THEN 0 ELSE NumericOf(d, cells[1])

RECURSIVE SumSeq(_, _)
SumSeq(d, cells) == IF cells = <<>> THEN 0 ELSE NumericOf(d, cells[1]) + SumSeq(d, Tail(cells))

\* Length of a match of /SUM\(([A-Z]+\d+:[A-Z]+\d+)\)/i at i
SumCallAt(s, i) ==
  LET Closed(n) == IF n > 0 /\ i + 4 + n <= Len(s) /\ s[i + 4 + n] = ")" THEN n + 5 ELSE 0
  IN Closed(IF i + 3 <= Len(s) /\ s[i] \in {"S", "s"} /\ s[i + 1] \in {"U", "u"}
               /\ s[i + 2] \in {"M", "m"} /\ s[i + 3] = "("
            THEN RangeLenAt(s, i + 4, TRUE) ELSE 0)

\* expr.replace(/SUM\(...\)/gi, sum of the range's values)
RECURSIVE ReplaceSums(_, _, _), ReplaceSumAt(_, _, _, _)
ReplaceSums(d, s, i) ==
  IF i > Len(s) THEN <<>> ELSE ReplaceSumAt(d, s, i, SumCallAt(s, i))
ReplaceSumAt(d, s, i, n) ==
  IF n > 0
  THEN numToString(SumSeq(d, parseRange(SubSeq(s, i + 4, i + n - 2)))) \o ReplaceSums(d, s, i + n)
  ELSE <<s[i]>> \o ReplaceSums(d, s, i + 1)

\* expr.replace(/\b([A-Z]+\d+)\b/g, value of the cell, '0' for currentCell)
RECURSIVE ReplaceRefs(_, _, _, _), ReplaceRefAt(_, _, _, _, _)
ReplaceRefs(d, s, i, currentCell) ==
  IF i > Len(s) THEN <<>> ELSE ReplaceRefAt(d, s, i, currentCell, CellRefAt(s, i))
ReplaceRefAt(d, s, i, currentCell, n) ==
  LET RefText(ref) == IF ref = currentCell THEN <<"0">> ELSE numToString(NumericOf(d, ref))
  IN IF n > 0
     THEN RefText(SubSeq(s, i, i + n - 1)) \o ReplaceRefs(d, s, i + n, currentCell)
     ELSE <<s[i]>> \o ReplaceRefs(d, s, i + 1, currentCell)

\* Tokens of the substituted expression: numbers, + - * / ( ), and "bad" for
\* anything the expression grammar has no use for (an identifier that is not
\* bound, the increment and decrement operators ++ and --).
RECURSIVE Tokens(_, _), NumberToken(_, _, _)
NumberToken(s, i, n) ==
  IF i + n <= Len(s) /\ IsWord(s[i + n])
  THEN <<[t |-> "bad", v |-> 0]>>
  ELSE <<[t |-> "num", v |-> DigitsToNat(SubSeq(s, i, i + n - 1))]>> \o Tokens(s, i + n)
Tokens(s, i) ==
  IF i > Len(s) THEN <<>>
  ELSE IF IsSpace(s[i]) THEN Tokens(s, i + 1)
  ELSE IF IsDigit(s[i]) THEN NumberToken(s, i, RunLen(s, i, "D"))
  ELSE IF s[i] \in {"+", "-"} /\ i < Len(s) /\ s[i + 1] = s[i]
       THEN <<[t |-> "bad", v |-> 0]>>
  ELSE IF s[i] \in {"+", "-", "*", "/", "(", ")"}
       THEN <<[t |-> s[i], v |-> 0]>> \o Tokens(s, i + 1)
  ELSE <<[t |-> "bad", v |-> 0]>>

\* A parse result: ok (syntactically valid so far), fin (the number is finite),
\* v (its value when finite), rest (the tokens left).
Fail == [ok |-> FALSE, fin |-> FALSE, v |-> 0, rest |-> <<>>]
Mk(fin, v, rest) ==
  LET Finite(x) == x <= MaxNum /\ x >= 0 - MaxNum
  IN [ok |-> TRUE, fin |-> fin /\ Finite(v), v |-> IF fin /\ Finite(v) THEN v ELSE 0,
      rest |-> rest]

\* acc (op) r for an operator of the grammar; a division by zero is not finite
Combine(acc, op, r) ==
  Mk(acc.fin /\ r.fin /\ (op = "/" => r.v # 0),
     CASE op = "+" -> acc.v + r.v
       [] op = "-" -> acc.v - r.v
       [] op = "*" -> acc.v * r.v
       [] OTHER -> IF r.v = 0 THEN 0 ELSE acc.v \div r.v,
     r.rest)
NextIs(acc, ops) == acc.rest # <<>> /\ acc.rest[1].t \in ops

RECURSIVE ParseExpr(_), ParseUnary(_), ParseTermRest(_), ParseExprRest(_),
          TermStep(_, _, _), ExprStep(_, _, _), TermFrom(_)
ParseUnary(ts) ==
  LET Negate(r) == IF r.ok THEN Mk(r.fin, 0 - r.v, r.rest) ELSE Fail
      CloseParen(r) ==
        IF r.ok /\ r.rest # <<>> /\ r.rest[1].t = ")" THEN [r EXCEPT !.rest = Tail(r.rest)]
        ELSE Fail
  IN IF ts = <<>> THEN Fail
     ELSE IF ts[1].t = "num" THEN Mk(TRUE, ts[1].v, Tail(ts))
     ELSE IF ts[1].t = "-" THEN Negate(ParseUnary(Tail(ts)))
     ELSE IF ts[1].t = "+" THEN ParseUnary(Tail(ts))
     ELSE IF ts[1].t = "(" THEN CloseParen(ParseExpr(Tail(ts)))
     ELSE Fail

\* a product or quotient continued: acc (* | /) unary ...
ParseTermRest(acc) ==
  IF NextIs(acc, {"*", "/"})
  THEN TermStep(acc, acc.rest[1].t, ParseUnary(Tail(acc.rest)))
  ELSE acc
TermStep(acc, op, r) == IF r.ok THEN ParseTermRest(Combine(acc, op, r)) ELSE Fail
TermFrom(u) == IF u.ok THEN ParseTermRest(u) ELSE Fail

\* a sum or difference continued: acc (+ | -) term ...
ParseExprRest(acc) ==
  IF NextIs(acc, {"+", "-"})
  THEN ExprStep(acc, acc.rest[1].t, TermFrom(ParseUnary(Tail(acc.rest))))
  ELSE acc
ExprStep(acc, op, r) == IF r.ok THEN ParseExprRest(Combine(acc, op, r)) ELSE Fail

ParseExpr(ts) == ExprStep(Mk(TRUE, 0, ts), "+", TermFrom(ParseUnary(ts)))

\* SpreadsheetEngine.evaluate(formula, currentCell): a number, or '#ERROR!'
\* when the expression does not parse or its result is not finite
evaluate(d, formula, currentCell) ==
  LET ResultOf(r) == IF r.ok /\ r.rest = <<>> /\ r.fin THEN Num(r.v) ELSE Str(ERROR)
  IN ResultOf(ParseExpr(Tokens(
       ReplaceRefs(d, ReplaceSums(d, TrimRight(SkipSpaces(Drop(formula, 1))), 1), 1, currentCell),
       1)))


(***************************************************************************)
(* Yjs transactions.  Every write made outside a running transaction body  *)
(* is a transaction of its own.  A transaction records the state vector it *)
(* started from, the items it deleted and the map keys it changed; its     *)
(* observers are called, and its 'update' event emitted, when it is        *)
(* cleaned up.  A write made by an observer starts a new transaction whose *)
(* cleanup is queued behind the running one.                               *)
(***************************************************************************)
Replicas == {1, 2}

\* Y.encodeStateVector: per client, the number of items held
StateVector(d) == [c \in Replicas |-> Cardinality({ id \in DOMAIN d.items : id[1] = c })]

\* A transaction of origin; pass: it is of a write of the engine's recompute loop
NewTx(d, origin) ==
  [origin |-> origin, before |-> StateVector(d), ds |-> {}, changed |-> <<>>, pass |-> FALSE]

\* addChangedTypeToTransaction: the type is registered when it is the top-level
\* map or existed before the transaction and is not deleted
AddChanged(S, p, key) ==
  IF (p = Root \/ (p[2] < S.t.before[p[1]] /\ p \notin S.d.del))
     /\ <<p, key>> \notin RangeOf(S.t.changed)
  THEN [S EXCEPT !.t.changed = Append(@, <<p, key>>)]
  ELSE S

\* Item.delete: marks the item, and with a nested map every entry of it
RECURSIVE DeleteItem(_, _), DeleteAll(_, _)
DeleteItem(S, id) ==
  IF id \in S.d.del THEN S
  ELSE LET it == S.d.items[id]
           S1 == [S EXCEPT !.d.del = @ \cup {id}, !.t.ds = @ \cup {id}]
           S2 == AddChanged(S1, it.parent, it.key)
       IN IF it.val = YMap
          THEN DeleteAll(S2, { LastOf(S.d, id, q[2]) : q \in { x \in DOMAIN S.d.lists : x[1] = id } })
          ELSE S2
DeleteAll(S, ids) ==
  IF ids = {} THEN S
  ELSE LET id == CHOOSE x \in ids : TRUE
       IN DeleteAll(DeleteItem(S, id), ids \ {id})

\* Index of id in the list l, 0 when absent
\* The conflict resolution of Item.integrate for an item whose right origin is
\* null: scans the list from position j and returns the index of the item the new
\* item is put after.  Items of the same origin are ordered by client id.
RECURSIVE ScanLeft(_, _, _, _, _, _, _)
ScanLeft(d, l, it, j, left, conflicting, before) ==
  IF j > Len(l) THEN left
  ELSE LET o == d.items[l[j]]
           before1 == before \cup {o.id}
           conf1 == conflicting \cup {o.id}
       IN IF o.origin = it.origin
          THEN IF o.id[1] < it.id[1]
               THEN ScanLeft(d, l, it, j + 1, j, {}, before1)
               ELSE left
          ELSE IF o.origin # NoId /\ o.origin \in before1
               THEN IF o.origin \notin conf1
                    THEN ScanLeft(d, l, it, j + 1, j, {}, before1)
                    ELSE ScanLeft(d, l, it, j + 1, left, conf1, before1)
               ELSE left

Extend(f, x, v) == [y \in DOMAIN f \cup {x} |-> IF y = x THEN v ELSE f[y]]

\* The item linked into the list l of its key after position left: put last
\* it replaces the entry it follows; an item of a deleted map, or one that is
\* not the last of its list, is deleted
Linked(S, it, l, left) ==
  LET Stored(T) ==
        [T EXCEPT !.d.items = Extend(@, it.id, it),
                  !.d.lists = Extend(@, <<it.parent, it.key>>,
                                     SubSeq(l, 1, left) \o <<it.id>> \o SubSeq(l, left + 1, Len(l)))]
      Replaced(T) == IF left = Len(l) /\ left > 0 THEN DeleteItem(T, l[left]) ELSE T
      Settled(T) ==
        IF (it.parent # Root /\ it.parent \in T.d.del) \/ left # Len(l)
        THEN DeleteItem(T, it.id) ELSE T
  IN Settled(AddChanged(Replaced(Stored(S)), it.parent, it.key))

\* A broken integration: the item delivered last becomes the current entry
IntegrateLastWins(S, it) ==
  Linked(S, it, ListOf(S.d, it.parent, it.key), Len(ListOf(S.d, it.parent, it.key)))

\* Item.integrate: links the item into the list of its key; the last item of
\* the list is the entry of the key, every other item of the list is deleted
Integrate(S, it) ==
  LET After(l, o) == Linked(S, it, l, ScanLeft(S.d, l, it, o + 1, o, {}, {}))
      IndexOf(l, id) ==
        IF \E i \in DOMAIN l : l[i] = id THEN CHOOSE i \in DOMAIN l : l[i] = id ELSE 0
      In(l) == After(l, IndexOf(l, it.origin))
  IN In(ListOf(S.d, it.parent, it.key))

\* Y.Map.set(key, val) by the local client
YSet(S, client, p, key, val) ==
  Integrate(S, [id |-> <<client, StateVector(S.d)[client]>>, parent |-> p, key |-> key,
                origin |-> LastOf(S.d, p, key), val |-> val])

\* Y.Map.delete(key)
YDelete(S, p, key) ==
  IF LastOf(S.d, p, key) = NoId THEN S ELSE DeleteItem(S, LastOf(S.d, p, key))

\* An item of an update can be integrated when it is the next of its client and
\* its parent and origin are held
Integrable(d, it) ==
  /\ it.id[2] = StateVector(d)[it.id[1]]
  /\ (it.parent = Root \/ it.parent \in DOMAIN d.items)
  /\ (it.origin = NoId \/ it.origin \in DOMAIN d.items)

RECURSIVE IntegrateAll(_, _), IntegrateReady(_, _, _), IntegrateNext(_, _, _)
IntegrateAll(S, cand) == IntegrateReady(S, cand, { it \in cand : Integrable(S.d, it) })
\* the next item to integrate: of the highest client, its lowest clock
IntegrateReady(S, cand, ready) ==
  IF ready = {} THEN [S EXCEPT !.d.pend = { it \in cand : it.id \notin DOMAIN S.d.items }]
  ELSE IntegrateNext(S, cand,
         CHOOSE x \in ready :
           \A y \in ready : x.id[1] > y.id[1] \/ (x.id[1] = y.id[1] /\ x.id[2] <= y.id[2]))
IntegrateNext(S, cand, it) == IntegrateAll(Integrate(S, it), cand \ {it})

\* A broken merge: the entries of the nested maps are dropped
YApplyTopLevel(S, upd) ==
  IntegrateAll(S, { it \in upd.items : it.parent = Root /\ it.id \notin DOMAIN S.d.items })

\* A merge that is not idempotent: an item of the update that the document
\* holds is linked into the list of its key once more
YApplyAgain(S, upd) ==
  LET held == { it \in upd.items : it.id \in DOMAIN S.d.items }
      Again(T, it) == Linked(T, it, ListOf(T.d, it.parent, it.key),
                             Len(ListOf(T.d, it.parent, it.key)))
      Relinked(T) == IF held = {} THEN T ELSE Again(T, CHOOSE it \in held : TRUE)
  IN Relinked(DeleteAll(IntegrateAll(S, { it \in upd.items : it.id \notin DOMAIN S.d.items }),
                        { id \in upd.ds : id \in DOMAIN S.d.items }))

\* Y.applyUpdate body: the items that can be integrated (with those kept pending
\* by earlier updates), then the delete set; what cannot be applied yet is kept
YApply(S, upd) ==
  LET KeepPendingDs(T, dsAll) ==
        [T EXCEPT !.d.pendDs = { id \in dsAll : id \notin DOMAIN T.d.items }]
      ApplyDeletes(T, dsAll) ==
        KeepPendingDs(DeleteAll(T, { id \in dsAll : id \in DOMAIN T.d.items }), dsAll)
  IN ApplyDeletes(IntegrateAll(S, { it \in upd.items \cup S.d.pend :
                                      it.id \notin DOMAIN S.d.items }),
                  upd.ds \cup S.d.pendDs)

\* An encoding of the whole state, whatever the state vector
encodeWholeState(d, sv) == [items |-> { d.items[id] : id \in DOMAIN d.items }, ds |-> d.del]

\* Y.encodeStateAsUpdate(doc, sv): the items the state vector lacks, every
\* deletion, and what is pending
encodeStateAsUpdate(d, sv) ==
  [items |-> { d.items[id] : id \in { x \in DOMAIN d.items : x[2] >= sv[x[1]] } }
             \cup { it \in d.pend : it.id[2] >= sv[it.id[1]] },
   ds |-> d.del \cup d.pendDs]

\* The 'update' event payload of a transaction: the items added since it began
\* and the deletions it made (writeUpdateMessageFromTransaction)
TxUpdate(d, t) ==
  [items |-> { d.items[id] : id \in { x \in DOMAIN d.items : x[2] >= t.before[x[1]] } },
   ds |-> t.ds]


(***************************************************************************)
(* Dependency graph: coordinate -> its dependents, in insertion order      *)
(* (a Map of Sets in the source).                                          *)
(***************************************************************************)
Dependents(g, coord) == IF coord \in DOMAIN g THEN g[coord] ELSE <<>>

\* SpreadsheetEngine.removeDependencies
removeDependencies(g, coord) ==
  [key \in DOMAIN g |-> SelectSeq(g[key], LAMBDA x : x # coord)]

\* the loop  for (const ref of refs) dependencyGraph.get(ref).add(coord)
RECURSIVE AddDependencies(_, _, _)
AddDependencies(g, refs, coord) ==
  IF refs = <<>> THEN g
  ELSE AddDependencies(Extend(g, refs[1], AddAll(Dependents(g, refs[1]), <<coord>>)),
                       Tail(refs), coord)

HasFormula(d, coord) == Truthy(Field(d, coord, FORMULA))

\* SpreadsheetEngine.rebuildDependenciesForCell
rebuildDependenciesForCell(d, g, coord) ==
  IF ~HasFormula(d, coord) THEN g
  ELSE AddDependencies(removeDependencies(g, coord),
                       extractReferences(Field(d, coord, FORMULA).s), coord)

\* SpreadsheetEngine.rebuildAllDependencies
RECURSIVE RebuildOver(_, _, _)
RebuildOver(d, g, keys) ==
  IF keys = {} THEN g
  ELSE LET c == CHOOSE x \in keys : TRUE
       IN RebuildOver(d, IF HasFormula(d, c)
                         THEN AddDependencies(g, extractReferences(Field(d, c, FORMULA).s), c)
                         ELSE g, keys \ {c})
rebuildAllDependencies(d) == RebuildOver(d, EmptyFn, CellKeys(d))

\* SpreadsheetEngine.hasCircularReference: depth-first over dependents; the
\* result and the visited set it leaves
RECURSIVE HasCircular(_, _, _, _), HasCircularLoop(_, _, _, _)
HasCircular(g, coord, visited, path) ==
  IF coord \in path THEN [r |-> TRUE, visited |-> visited]
  ELSE IF coord \in visited THEN [r |-> FALSE, visited |-> visited]
  ELSE HasCircularLoop(g, Dependents(g, coord), visited \cup {coord}, path \cup {coord})
HasCircularLoop(g, deps, visited, path) ==
  IF deps = <<>> THEN [r |-> FALSE, visited |-> visited]
  ELSE LET x == HasCircular(g, deps[1], visited, path)
       IN IF x.r THEN x ELSE HasCircularLoop(g, Tail(deps), x.visited, path)
hasCircularReference(g, coord) == HasCircular(g, coord, {}, {}).r

(***************************************************************************)
(* The engine's recompute pass.  E is the replica's state while a handler  *)
(* runs: d the document, g the graph, q the transactions awaiting cleanup. *)
(***************************************************************************)
\* a Y.Map write outside a transaction: a transaction of its own, origin null
LocalWrite(E, client, p, key, val) ==
  LET Queued(S) == [E EXCEPT !.d = S.d, !.q = Append(@, S.t)]
  IN Queued(YSet([d |-> E.d, t |-> NewTx(E.d, "local")], client, p, key, val))

\* the traversal of processChangedCells: the cells to recalculate, in order
RECURSIVE Traverse(_, _, _, _)
Traverse(g, queue, visited, toRecalculate) ==
  IF queue = <<>> THEN toRecalculate
  ELSE IF queue[1] \in visited THEN Traverse(g, Tail(queue), visited, toRecalculate)
  ELSE Traverse(g, Tail(queue) \o Dependents(g, queue[1]), visited \cup {queue[1]},
                AddAll(toRecalculate, Dependents(g, queue[1])))

\* A traversal that is not seeded with the changed formula cells
ToRecalculateDependentsOnly(d, g, changedCells) == Traverse(g, changedCells, {}, <<>>)

\* toRecalculate: the changed cells that hold a formula, then what the traversal adds
ToRecalculate(d, g, changedCells) ==
  Traverse(g, changedCells, {}, SelectSeq(changedCells, LAMBDA c : HasFormula(d, c)))

\* the loop  for (const coord of toRecalculate): re-evaluate, write if different
\* A broken recompute: the result is never stored
SetNever(E, client, m, result) == E

\* A recompute that stores every result
SetAlways(E, client, m, result) ==
  LET ByPass(W) == [W EXCEPT !.q[Len(W.q)].pass = TRUE]
  IN ByPass(LocalWrite(E, client, m, VALUE, result))

\* if (currentValue !== result) cellData.set('value', result)
SetIfChanged(E, client, m, result) ==
  LET ByPass(W) == [W EXCEPT !.q[Len(W.q)].pass = TRUE]
  IN IF YGet(E.d, m, VALUE) # result
     THEN ByPass(LocalWrite(E, client, m, VALUE, result)) ELSE E
\* const cellData = this.cells.get(coord); if (!cellData) continue;
\* const formula = cellData.get('formula'); if (formula) ...
RecalculateCell(E, client, coord, m) ==
  LET WithFormula(formula) ==
        IF Truthy(formula) THEN SetIfChanged(E, client, m, evaluate(E.d, formula.s, coord))
        ELSE E
  IN IF m = NoId THEN E ELSE WithFormula(YGet(E.d, m, FORMULA))

RECURSIVE Recalculate(_, _, _)
Recalculate(E, client, cells) ==
  IF cells = <<>> THEN E
  ELSE Recalculate(RecalculateCell(E, client, cells[1], CellMap(E.d, cells[1])),
                   client, Tail(cells))

\* SpreadsheetEngine.processChangedCells
\* (this.isProcessing = true; try { the loop } finally { this.isProcessing = false },
\* then changedCells.forEach(notifyObservers); toRecalculate.forEach(notifyObservers))
processChangedCells(E, client, changedCells) ==
  LET Pass(toRecalculate) ==
        [Recalculate([E EXCEPT !.isProcessing = TRUE], client, toRecalculate)
           EXCEPT !.isProcessing = FALSE, !.notified = @ \o changedCells \o toRecalculate]
  IN Pass(ToRecalculate(E.d, E.g, changedCells))

\* YMapEvent.changes.keys of the top-level map: whether the transaction t added,
\* updated or deleted the entry of key (an entry it left as it was is no change)
KeyChanged(d, t, key) ==
  LET l == ListOf(d, Root, key)
      Adds(id) == id[2] >= t.before[id[1]]
      Deletes(id) == id \in t.ds
      prevs == { i \in 1..(Len(l) - 1) : ~Adds(l[i]) }
      prev == IF prevs = {} THEN NoId ELSE l[CHOOSE i \in prevs : \A j \in prevs : j <= i]
      item == l[Len(l)]
  IN IF Adds(item)
     THEN IF Deletes(item) THEN prev # NoId /\ Deletes(prev) ELSE TRUE
     ELSE Deletes(item)

\* the changedCells of handleDeepCellChanges for the events of transaction t:
\* the changed keys of the top-level map, then the coordinate of every nested
\* map that changed and is not deleted
RECURSIVE ChangedOf(_, _, _, _)
ChangedOf(d, t, i, nested) ==
  IF i > Len(t.changed) THEN <<>>
  ELSE LET p == t.changed[i][1]
           key == t.changed[i][2]
       IN IF nested
          THEN (IF p # Root /\ p \notin d.del /\ CellMap(d, d.items[p].key) = p
                THEN <<d.items[p].key>> ELSE <<>>) \o ChangedOf(d, t, i + 1, nested)
          ELSE (IF p = Root /\ KeyChanged(d, t, key) THEN <<key>> ELSE <<>>)
               \o ChangedOf(d, t, i + 1, nested)
ChangedCells(d, t) == AddAll(AddAll(<<>>, ChangedOf(d, t, 1, FALSE)), ChangedOf(d, t, 1, TRUE))

RECURSIVE RebuildChanged(_, _, _)
RebuildChanged(d, g, cells) ==
  IF cells = <<>> THEN g
  ELSE RebuildChanged(d, rebuildDependenciesForCell(d, g, cells[1]), Tail(cells))

\* SpreadsheetEngine.handleDeepCellChanges, the observeDeep callback
handleDeepCellChanges(E, client, t) ==
  LET Handle(changedCells) ==
        processChangedCells([E EXCEPT !.g = RebuildChanged(E.d, E.g, changedCells)],
                            client, changedCells)
  IN IF E.isProcessing THEN E ELSE Handle(ChangedCells(E.d, t))

(***************************************************************************)
(* State.  Every replica runs index.js's wiring: one Y.Doc, one            *)
(* SpreadsheetEngine observing it, one Libp2pProvider on the topic.        *)
(***************************************************************************)
VARIABLES
  doc,       \* [replica -> Y.Doc]
  graph,     \* [replica -> engine.dependencyGraph]
  txq,       \* [replica -> doc._transactionCleanups: transactions awaiting cleanup]
  pc,        \* [replica -> the statements the running handler has still to execute]
  handling,  \* [replica -> what the running handler is: "none", "edit", "apply",
             \*             "again" (of a message handled before)]
  synced,    \* [replica -> provider.synced]
  timer,     \* [replica -> the initial sync-request timer is pending]
  net,       \* the messages in flight on the topic, one copy for each receiver
  last,      \* [replica -> the message its provider handled latest]
  sent,      \* [replica -> number of 'update' messages it has published]
  authored,  \* [replica -> number of transactions with content made by its local edits]
  edits,     \* [replica -> the local edits so far, in order]
  mark,      \* the configuration recorded when local editing stopped, and the writes since
  range,     \* input and output of the reference parser applied to a pair of corners,
             \* or of the coordinate conversions applied to a row and a column,
             \* or of the two graph traversals applied to a graph and a cell
  subscribed, \* the replicas whose provider has subscribed to the topic
  ignored,   \* [replica -> topic, sender and type of the inbound messages
             \*             its provider has discarded, and whether they carried
             \*             items, in order]
  attached,  \* [replica -> the listeners registered: "observeDeep" of its engine
             \*             on the cells map, and of its provider "update"
             \*             on the document, "message" on the pubsub service,
             \*             "subscribe": the continuation of _subscribeToPubsub
             \*             that waits for the subscribe call to resolve]
  connected, \* [replica -> provider.connected]
  peerExchange, \* the WebRTCPeerExchange service of one node, the connections of
             \* the node and what the service has sent and dialed
  ui         \* the SpreadsheetUI of replica 1: the cell whose input has the focus
             \* (<<>>: none), the text of that input, the originalValue of its
             \* focus handler, and the engine call its blur handler makes with
             \* the number of edits before it

vars == <<doc, graph, txq, pc, handling, synced, timer, net, last, sent,
          authored, edits, mark, range, subscribed, ignored, attached, connected, peerExchange, ui>>

\* Largest number of items a replica authors in one behaviour
MaxClock == 30

NoSv == [c \in Replicas |-> 0]
\* A message of replica r on the topic; n is, for an update, its rank among the
\* updates of r; late: it travels slowly
Topic == "doc"
Msg(r, type, n, items, ds, sv) ==
  [topic |-> Topic, from |-> r, type |-> type, n |-> n, items |-> items, ds |-> ds, sv |-> sv,
   late |-> FALSE]
\* pubsub.publish: a copy of the message travels to every other peer
Copies(m) == { [to |-> p, m |-> m] : p \in subscribed \ {m.from} }

NoRange == [p |-> <<>>, q |-> <<>>, vals |-> <<>>, done |-> FALSE,
            refsPQ |-> <<>>, refsQP |-> <<>>, sumPQ |-> Undef, sumQP |-> Undef,
            recv |-> Undef]

Idle(r) == pc[r] = <<>> /\ txq[r] = <<>>
Quiet == \A r \in Replicas : Idle(r)

Instr(op, coord, text, m, key, val) ==
  [op |-> op, coord |-> coord, text |-> text, m |-> m, key |-> key, val |-> val]

(***************************************************************************)
(* WebRTCPeerExchange (peer-exchange.js): one service, the connections of  *)
(* its node, the peers it was told about.                                  *)
(***************************************************************************)
\* the peer ids of the other nodes
PeerIds == {"peerA", "peerB"}
\* Most WebRTC addresses of a peer in a peer-exchange message
MaxAddrs == 2
\* Most peer-exchange messages the service sends in a behaviour
MaxSends == 4
\* Most calls of start() that do something in a behaviour
MaxStarts == 2

\* a connection of the node: the remote peer, and whether the remote address
\* includes '/webrtc'
Connections == [remotePeer : PeerIds, webrtc : BOOLEAN]

\* new WebRTCPeerExchange(components, options): listeners counts the
\* 'connection:open' listeners registered on components.events, handled is
\* whether the protocol has a handler; dialing holds the calls of
\* dialPeerWebRTC that wait for a dial, left being the addresses not tried
\* yet; sends are the calls of sendPeerExchange in order; dialed and calls
\* count, per peer and since the last start(), the calls of dialPeerWebRTC and
\* of components.dial
NewWebRTCPeerExchange ==
  [started |-> FALSE, listeners |-> 0, handled |-> FALSE, seenPeers |-> {},
   connections |-> {}, dialing |-> {}, sends |-> <<>>, starts |-> 0,
   dialed |-> [p \in PeerIds |-> 0], calls |-> [p \in PeerIds |-> 0]]

\* the peers the node has a WebRTC connection to
WebRTCPeers(x) == { c.remotePeer : c \in { c \in x.connections : c.webrtc } }

\* the elements of a set of peers one after the other
RECURSIVE InOrder(_)
InOrder(S) ==
  IF S = {} THEN <<>> ELSE LET p == CHOOSE p \in S : TRUE IN <<p>> \o InOrder(S \ {p})

\* shareWebRTCPeersOnConnection(newWebRTCConnection): every other WebRTC peer
\* is told about the new peer, the new peer is told about the others
shareWebRTCPeersOnConnection(x, conn) ==
  LET existingPeers == WebRTCPeers(x) \ {conn.remotePeer}
      order == InOrder(existingPeers)
      toExisting == [i \in 1..Len(order) |-> [to |-> order[i], peers |-> {conn.remotePeer}]]
      toNew == IF existingPeers # {}
               THEN <<[to |-> conn.remotePeer, peers |-> existingPeers]>> ELSE <<>>
  IN [x EXCEPT !.sends = @ \o toExisting \o toNew]

\* onConnectionOpen(evt), the service being enabled
onConnectionOpen(x, conn) ==
  IF ~conn.webrtc THEN x ELSE shareWebRTCPeersOnConnection(x, conn)

\* components.events dispatches 'connection:open' to the n listeners registered
RECURSIVE Dispatch(_, _, _)
Dispatch(x, conn, n) ==
  IF n = 0 THEN x ELSE Dispatch(onConnectionOpen(x, conn), conn, n - 1)

\* start(): the listener registered is a new bound function
start ==
  /\ ~peerExchange.started /\ peerExchange.starts < MaxStarts
  /\ peerExchange' = [peerExchange EXCEPT
                        !.started = TRUE, !.handled = TRUE, !.listeners = @ + 1,
                        !.starts = @ + 1,
                        !.dialed = [p \in PeerIds |-> 0], !.calls = [p \in PeerIds |-> 0]]
  /\ UNCHANGED <<doc, graph, txq, pc, handling, synced, timer, net, last, sent, authored,
                 edits, mark, range, subscribed, ignored, attached, connected, ui>>

\* stop(): removeEventListener is called with another new bound function, which
\* is none of the listeners registered, so that none is removed
stop ==
  /\ peerExchange.started
  /\ peerExchange' = [peerExchange EXCEPT
                        !.started = FALSE, !.handled = FALSE, !.seenPeers = {}]
  /\ UNCHANGED <<doc, graph, txq, pc, handling, synced, timer, net, last, sent, authored,
                 edits, mark, range, subscribed, ignored, attached, connected, ui>>

\* a connection of the node opens, other than by a dial of the service
ConnectionOpen(conn) ==
  /\ conn \notin peerExchange.connections
  /\ LET opened == [peerExchange EXCEPT !.connections = @ \cup {conn}]
         x == Dispatch(opened, conn, peerExchange.listeners)
     IN /\ Len(x.sends) <= MaxSends
        /\ peerExchange' = x
  /\ UNCHANGED <<doc, graph, txq, pc, handling, synced, timer, net, last, sent, authored,
                 edits, mark, range, subscribed, ignored, attached, connected, ui>>

\* a connection of the node closes
ConnectionClose(conn) ==
  /\ conn \in peerExchange.connections
  /\ peerExchange' = [peerExchange EXCEPT !.connections = @ \ {conn}]
  /\ UNCHANGED <<doc, graph, txq, pc, handling, synced, timer, net, last, sent, authored,
                 edits, mark, range, subscribed, ignored, attached, connected, ui>>

\* processPeerInfo(peerInfo) up to its await, addrs being the number of
\* addresses of peerInfo that include '/webrtc': dialPeerWebRTC dials the
\* first of them
processPeerInfo(x, peerId, addrs) ==
  IF peerId \in x.seenPeers THEN x
  ELSE IF \E c \in x.connections : c.remotePeer = peerId THEN x
  ELSE LET seen == [x EXCEPT !.seenPeers = @ \cup {peerId}]
       IN IF addrs > 0
          THEN [seen EXCEPT !.dialing = @ \cup {[id |-> peerId, left |-> addrs - 1]},
                            !.dialed[peerId] = @ + 1, !.calls[peerId] = @ + 1]
          ELSE seen

\* handlePeerExchange({ stream }) for a message that names one peer; streams of
\* the protocol reach the node while the protocol has a handler
handlePeerExchange(peerId, addrs) ==
  /\ peerExchange.handled
  /\ peerExchange' = processPeerInfo(peerExchange, peerId, addrs)
  /\ UNCHANGED <<doc, graph, txq, pc, handling, synced, timer, net, last, sent, authored,
                 edits, mark, range, subscribed, ignored, attached, connected, ui>>

\* the dial dialPeerWebRTC waits for resolves (the connection opens, unless the
\* node has it already, and dialPeerWebRTC returns) or rejects (the next
\* address is dialed, if there is one)
DialResolved(d, ok) ==
  /\ d \in peerExchange.dialing
  /\ LET conn == [remotePeer |-> d.id, webrtc |-> TRUE]
         done == [peerExchange EXCEPT !.dialing = @ \ {d}]
         opened == [done EXCEPT !.connections = @ \cup {conn}]
         x == IF ok
              THEN IF conn \in peerExchange.connections THEN done
                   ELSE Dispatch(opened, conn, peerExchange.listeners)
              ELSE IF d.left > 0
                   THEN [done EXCEPT !.dialing = @ \cup {[d EXCEPT !.left = @ - 1]},
                                     !.calls[d.id] = @ + 1]
                   ELSE done
     IN /\ Len(x.sends) <= MaxSends
        /\ peerExchange' = x
  /\ UNCHANGED <<doc, graph, txq, pc, handling, synced, timer, net, last, sent, authored,
                 edits, mark, range, subscribed, ignored, attached, connected, ui>>

\* the state after construction, listeners being the listeners registered by then
InitWith(listeners) ==
  /\ doc = [r \in Replicas |-> EmptyDoc]
  /\ graph = [r \in Replicas |-> EmptyFn]
  /\ txq = [r \in Replicas |-> <<>>]
  /\ pc = [r \in Replicas |-> <<>>]
  /\ handling = [r \in Replicas |-> "none"]
  /\ synced = [r \in Replicas |-> FALSE]
  /\ net = {}
  /\ last = [r \in Replicas |-> Msg(0, "none", 0, {}, {}, NoSv)]
  /\ sent = [r \in Replicas |-> 0]
  /\ authored = [r \in Replicas |-> 0]
  /\ edits = [r \in Replicas |-> <<>>]
  /\ mark = [set |-> FALSE, cells |-> EmptyFn, g |-> EmptyFn, q |-> <<>>, pc |-> <<>>, writes |-> 0]
  /\ ignored = [r \in Replicas |-> <<>>]
  /\ attached = listeners
  /\ connected = [r \in Replicas |-> "message" \in listeners[r]]
  /\ peerExchange = NewWebRTCPeerExchange
  /\ ui = [focus |-> <<>>, input |-> <<>>, originalValue |-> <<>>, call |-> <<>>, at |-> 0]
\* index.js: the engine and the provider of every replica are constructed, the
\* subscription of the provider is complete
InitCommon == InitWith([r \in Replicas |-> {"observeDeep", "update", "message"}])

\* The outcome of one step of replica r: E its document, graph and transaction
\* queue, pcNew what its handler has still to do, out the messages it publishes
\* (Libp2pProvider._publishMessage), taken the copies it takes from the topic
Commit(r, E, pcNew, kind, out, taken) ==
  /\ StateVector(E.d)[r] <= MaxClock
  /\ doc' = [doc EXCEPT ![r] = E.d]
  /\ graph' = [graph EXCEPT ![r] = E.g]
  /\ txq' = [txq EXCEPT ![r] = E.q]
  /\ pc' = [pc EXCEPT ![r] = pcNew]
  /\ handling' = [handling EXCEPT ![r] = IF pcNew = <<>> /\ E.q = <<>> THEN "none" ELSE kind]
  /\ net' = (net \ taken) \cup UNION { Copies(m) : m \in out }
  /\ mark' = IF mark.set
             THEN [mark EXCEPT !.writes = @ + (StateVector(E.d)[r] - StateVector(doc[r])[r])]
             ELSE mark
  /\ UNCHANGED <<attached, connected, peerExchange, ui>>

\* the engine of replica r between two steps: its document, graph and queued
\* transactions, the flag of its recompute loop, and the coordinates its
\* onChange observers are called with during the step
Engine(r) ==
  [d |-> doc[r], g |-> graph[r], q |-> txq[r], isProcessing |-> FALSE, notified |-> <<>>]

Edit(op, coord, text) == [op |-> op, coord |-> coord, text |-> text]
RECURSIVE EditsOf(_)
\* the number of local edits of the replicas in S
EditsOf(S) == IF S = {} THEN 0
              ELSE LET x == CHOOSE y \in S : TRUE IN Len(edits[x]) + EditsOf(S \ {x})
\* a sync-request or a sync-response is in flight
InSync ==
  \E c \in net : /\ c.m.type \in {"sync-request", "sync-response"} /\ ~c.m.late
                  /\ c.m.topic = Topic /\ c.m.from # c.to
\* A user edits while no handler runs, until editing stops
CanEdit == Quiet /\ ~InSync /\ ~mark.set

\* setCell from the test of the input on: the graph update, the cycle check, the
\* evaluation and the first of the three writes; the other two are left in pc
SetCellBody(E, r, coord, text, m) ==
  LET SetInstr(key, val) == Instr("set", <<>>, <<>>, m, key, val)
  IN
  IF text # <<>> /\ text[1] = "="
  THEN LET g1 == AddDependencies(removeDependencies(E.g, coord), extractReferences(text), coord)
           circ == hasCircularReference(g1, coord)
           v == IF circ THEN Str(CIRCULAR) ELSE evaluate(E.d, text, coord)
       IN [E |-> LocalWrite([E EXCEPT !.g = g1], r, m, VALUE, v),
           pc |-> <<SetInstr(FORMULA, Str(text)),
                    SetInstr(ERRORF, IF circ THEN True ELSE False)>>]
  ELSE LET hadFormula == YGet(E.d, m, FORMULA) \notin {Undef, Null}
           g1 == IF hadFormula THEN removeDependencies(E.g, coord) ELSE E.g
       IN [E |-> LocalWrite([E EXCEPT !.g = g1], r, m, VALUE, Str(text)),
           pc |-> <<SetInstr(FORMULA, Null), SetInstr(ERRORF, False)>>]

\* SpreadsheetEngine.setCell(coord, text) called on replica r
setCell(r, coord, text) ==
  /\ CanEdit
  /\ edits' = [edits EXCEPT ![r] = Append(@, Edit("set", coord, text))]
  /\ IF CellMap(doc[r], coord) = NoId
     THEN Commit(r, LocalWrite(Engine(r), r, Root, coord, YMap),
                 <<Instr("setCell", coord, text, <<r, StateVector(doc[r])[r]>>, <<>>, Undef)>>,
                 "edit", {}, {})
     ELSE LET b == SetCellBody(Engine(r), r, coord, text, CellMap(doc[r], coord))
          IN Commit(r, b.E, b.pc, "edit", {}, {})
  /\ UNCHANGED <<synced, timer, last, sent, authored, range, subscribed, ignored>>

\* A clearCell that leaves the graph as it is
clearCellKeepingEdges(r, coord) ==
  /\ CanEdit
  /\ edits' = [edits EXCEPT ![r] = Append(@, Edit("clear", coord, <<>>))]
  /\ LET S == YDelete([d |-> doc[r], t |-> NewTx(doc[r], "local")], Root, coord)
     IN Commit(r, [d |-> S.d, g |-> graph[r], q |-> <<S.t>>], <<>>, "edit", {}, {})
  /\ UNCHANGED <<synced, timer, last, sent, authored, range, subscribed, ignored>>

\* SpreadsheetEngine.clearCell(coord) called on replica r
clearCell(r, coord) ==
  /\ CanEdit
  /\ edits' = [edits EXCEPT ![r] = Append(@, Edit("clear", coord, <<>>))]
  /\ LET S == YDelete([d |-> doc[r], t |-> NewTx(doc[r], "local")], Root, coord)
     IN Commit(r, [d |-> S.d, g |-> removeDependencies(graph[r], coord), q |-> <<S.t>>],
               <<>>, "edit", {}, {})
  /\ UNCHANGED <<synced, timer, last, sent, authored, range, subscribed, ignored>>

\* The running handler of replica r executes its next statement
Continue(r) ==
  /\ txq[r] = <<>> /\ pc[r] # <<>>
  /\ LET i == pc[r][1]
     IN CASE i.op = "setCell" ->
               LET b == SetCellBody(Engine(r), r, i.coord, i.text, i.m)
               IN Commit(r, b.E, b.pc, handling[r], {}, {}) /\ UNCHANGED synced
          [] i.op = "set" ->
               /\ Commit(r, LocalWrite(Engine(r), r, i.m, i.key, i.val), Tail(pc[r]),
                         handling[r], {}, {})
               /\ UNCHANGED synced
          [] i.op = "synced" ->
               /\ Commit(r, Engine(r), Tail(pc[r]), handling[r], {}, {})
               /\ synced' = [synced EXCEPT ![r] = TRUE]
  /\ UNCHANGED <<timer, last, sent, authored, edits, range, subscribed, ignored>>

\* Whether the transaction has anything to encode (the 'update' event is
\* emitted only then)
HasContent(d, t) == t.ds # {} \/ StateVector(d) # t.before

\* An update observer that broadcasts whatever the origin
HandleDocUpdateAll(r, update, origin) ==
  {Msg(r, "update", sent[r], update.items, update.ds, NoSv)}

\* _handleDocUpdate(update, origin): the messages it publishes, none when the
\* origin is the provider itself
HandleDocUpdate(r, update, origin) ==
  IF origin = "provider" THEN {}
  ELSE {Msg(r, "update", sent[r], update.items, update.ds, NoSv)}

\* A provider whose failed publish ends the running handler
CleanupAborting(r, published) ==
  /\ txq[r] # <<>>
  /\ LET t == txq[r][1]
         E0 == [Engine(r) EXCEPT !.q = Tail(txq[r])]
         E1 == IF "observeDeep" \in attached[r] THEN handleDeepCellChanges(E0, r, t) ELSE E0
         emit == HasContent(doc[r], t)
         out == IF emit /\ "update" \in attached[r]
                THEN HandleDocUpdate(r, TxUpdate(E1.d, t), t.origin) ELSE {}
     IN /\ ~published => out # {}
        /\ Commit(r, E1, IF published THEN pc[r] ELSE <<>>, handling[r],
                  IF published THEN out ELSE {}, {})
        /\ sent' = [sent EXCEPT ![r] = @ + Cardinality(IF published THEN out ELSE {})]
        /\ authored' = [authored EXCEPT
                          ![r] = IF emit /\ t.origin = "local" /\ handling[r] = "edit"
                                 THEN @ + 1 ELSE @]
  /\ UNCHANGED <<synced, timer, last, edits, range, subscribed, ignored>>

\* Cleanup of the oldest transaction of replica r: the engine's observer runs
\* (its writes are new transactions, queued), then the 'update' event reaches
\* Libp2pProvider._handleDocUpdate, which publishes unless the origin is the
\* provider itself.  published: pubsub.publish resolves; when it rejects,
\* _publishMessage logs the error and the message is not sent
Cleanup(r, published) ==
  /\ txq[r] # <<>>
  /\ LET t == txq[r][1]
         E0 == [Engine(r) EXCEPT !.q = Tail(txq[r])]
         E1 == IF "observeDeep" \in attached[r] THEN handleDeepCellChanges(E0, r, t) ELSE E0
         emit == HasContent(doc[r], t)
         out == IF emit /\ "update" \in attached[r]
                THEN HandleDocUpdate(r, TxUpdate(E1.d, t), t.origin) ELSE {}
     IN /\ ~published => out # {}
        /\ Commit(r, E1, pc[r], handling[r], IF published THEN out ELSE {}, {})
        /\ sent' = [sent EXCEPT ![r] = @ + Cardinality(IF published THEN out ELSE {})]
        /\ authored' = [authored EXCEPT
                          ![r] = IF emit /\ t.origin = "local" /\ handling[r] = "edit"
                                 THEN @ + 1 ELSE @]
  /\ UNCHANGED <<synced, timer, last, edits, range, subscribed, ignored>>

CleanupTransaction(r) == Cleanup(r, TRUE)
\* the cleanup of a transaction whose update fails to be published
CleanupUnpublished(r) == Cleanup(r, FALSE)

(***************************************************************************)
(* Libp2pProvider.  The topic is best effort: a copy in flight may never   *)
(* be handled, the updates of a peer may be handled out of order (by less  *)
(* than Window places) and a message may be handled again.  A handler of   *)
(* one replica runs while the others are between handlers: replicas        *)
(* interact only through the topic.  A sync-request and its answer travel  *)
(* fast: while one is in flight no user edits and no update is delivered.  *)
(***************************************************************************)
\* How far from publication order a replica may handle the updates of a peer
\* (1: in publication order)
Window == 1

Deliverable(c) ==
  LET Earlier(x) == /\ x.to = c.to /\ x.m.type = "update" /\ x.m.topic = c.m.topic
                    /\ x.m.from = c.m.from /\ x.m.n < c.m.n
  IN /\ c \in net
     /\ InSync => c.m.type # "update"
     /\ c.m.type = "update" => Cardinality({ x \in net : Earlier(x) }) < Window

\* A provider that asks again: its timer stays armed
SyncRequestRetried(r) ==
  /\ Quiet /\ ~InSync /\ timer[r]
  /\ Commit(r, Engine(r), <<>>, "none",
            {Msg(r, "sync-request", 0, {}, {}, StateVector(doc[r]))}, {})
  /\ UNCHANGED <<synced, timer, last, sent, authored, edits, range, subscribed, ignored>>

\* _requestInitialState: the timer fires and the provider asks for the state
SyncRequestTimer(r) ==
  /\ Quiet /\ ~InSync /\ timer[r]
  /\ timer' = [timer EXCEPT ![r] = FALSE]
  /\ Commit(r, Engine(r), <<>>, "none",
            {Msg(r, "sync-request", 0, {}, {}, StateVector(doc[r]))}, {})
  /\ UNCHANGED <<synced, last, sent, authored, edits, range, subscribed, ignored>>

\* A provider that replaces the store by the update it receives
ApplyUpdateReplacing(r, m, taken) ==
  LET S == YApply([d |-> EmptyDoc, t |-> NewTx(EmptyDoc, "provider")],
                  [items |-> m.items, ds |-> m.ds])
  IN Commit(r, [d |-> S.d, g |-> graph[r], q |-> <<S.t>>],
            <<Instr("synced", <<>>, <<>>, NoId, <<>>, Undef)>>,
            IF taken = {} THEN "again" ELSE "apply", {}, taken)

\* _applyUpdate: Y.applyUpdate(doc, update, this), then synced = true; a
\* message that takes no copy from the topic is one handled before
ApplyUpdate(r, m, taken) ==
  LET S == YApply([d |-> doc[r], t |-> NewTx(doc[r], "provider")],
                  [items |-> m.items, ds |-> m.ds])
  IN Commit(r, [d |-> S.d, g |-> graph[r], q |-> <<S.t>>],
            <<Instr("synced", <<>>, <<>>, NoId, <<>>, Undef)>>,
            IF taken = {} THEN "again" ELSE "apply", {}, taken)

\* A provider that answers with what its own state vector lacks
HandleSyncRequestOwnVector(r, m, taken) ==
  LET u == encodeStateAsUpdate(doc[r], StateVector(doc[r]))
  IN Commit(r, Engine(r), <<>>, "none",
            {Msg(r, "sync-response", 0, u.items, u.ds, NoSv)}, taken)

\* _handleSyncRequest: answers with the state the requester's vector lacks
HandleSyncRequest(r, m, taken) ==
  LET u == encodeStateAsUpdate(doc[r], m.sv)
  IN Commit(r, Engine(r), <<>>, "none",
            {Msg(r, "sync-response", 0, u.items, u.ds, NoSv)}, taken)

\* A switch that takes every message for an update
DecodedAny(m) == TRUE
\* A handler without the two tests
AcceptedAny(r, m) == TRUE

\* the two tests _handlePubsubMessage returns on: the event is of another
\* topic, or its sender is the local peer
Accepted(r, m) == m.topic = Topic /\ m.from # r
\* JSON.parse yields a message whose type the switch has a case for
Decoded(m) == m.type \in {"update", "sync-request", "sync-response"}

\* _handlePubsubMessage for a 'message' event of the pubsub service
HandleMessage(r, m, taken) ==
  /\ Quiet
  /\ IF Accepted(r, m) /\ Decoded(m)
     THEN /\ last' = [last EXCEPT ![r] = m]
          /\ IF m.type = "sync-request"
             THEN HandleSyncRequest(r, m, taken)
             ELSE ApplyUpdate(r, m, taken)
          /\ UNCHANGED ignored
     ELSE /\ Commit(r, Engine(r), <<>>, "none", {}, taken)
          /\ ignored' = [ignored EXCEPT
                          ![r] = Append(@, [topic |-> m.topic, from |-> m.from, type |-> m.type,
                                            items |-> m.items # {}])]
          /\ UNCHANGED last
  /\ UNCHANGED <<synced, timer, sent, authored, edits, range, subscribed>>

\* a copy in flight reaches replica r: the pubsub service dispatches a 'message'
\* event, to the listener of the provider if it is registered
HandlePubsubMessage(r) ==
  \E c \in net :
    /\ c.to = r /\ Deliverable(c)
    /\ IF "message" \in attached[r]
       THEN HandleMessage(r, c.m, {c})
       ELSE /\ Quiet /\ net' = net \ {c}
            /\ UNCHANGED <<doc, graph, txq, pc, handling, synced, timer, last, sent, authored,
                           edits, mark, range, subscribed, ignored, attached, connected, peerExchange, ui>>

\* the topic delivers to replica r once more the update or sync-response it
\* delivered latest
HandleDuplicate(r) ==
  /\ ~InSync /\ last[r].type \in {"update", "sync-response"} /\ "message" \in attached[r]
  /\ HandleMessage(r, last[r], {})

\* Messages that reach replica r and are none of the protocol: a payload that
\* is no JSON text, a message of a type the protocol does not have, a message
\* of another topic, and a message of its own that the service hands back
Strays(r) ==
  LET peer == CHOOSE p \in Replicas : p # r
      StateOf(p) == encodeStateAsUpdate(doc[p], NoSv)
      OfTopic(m, topic) == [m EXCEPT !.topic = topic]
  IN { Msg(peer, "undecodable", 0, {}, {}, NoSv),
       Msg(peer, "unknown", 0, StateOf(peer).items, StateOf(peer).ds, NoSv),
       OfTopic(Msg(peer, "update", 0, StateOf(peer).items, StateOf(peer).ds, NoSv), "other"),
       OfTopic(Msg(peer, "sync-request", 0, {}, {}, NoSv), "other"),
       Msg(r, "update", 0, StateOf(r).items, StateOf(r).ds, NoSv),
       Msg(r, "sync-request", 0, {}, {}, NoSv) }
\* Most messages of that kind in one behaviour
MaxStray == 1

\* such a message is on its way to replica r
StrayMessage(r) ==
  /\ Quiet /\ ~InSync
  /\ Cardinality({ c \in net : ~(Accepted(c.to, c.m) /\ Decoded(c.m)) })
       + Len(ignored[1]) + Len(ignored[2]) < MaxStray
  /\ \E m \in Strays(r) : [to |-> r, m |-> m] \notin net /\ net' = net \cup {[to |-> r, m |-> m]}
  /\ UNCHANGED <<doc, graph, txq, pc, handling, synced, timer, last, sent, authored,
                 edits, mark, range, subscribed, ignored, attached, connected, peerExchange, ui>>

(***************************************************************************)
(* Inputs.                                                                 *)
(***************************************************************************)
A1 == <<"A", "1">>
A2 == <<"A", "2">>
A3 == <<"A", "3">>
B1 == <<"B", "1">>
C1 == <<"C", "1">>
SumA1A2 == <<"=", "A", "1", "+", "A", "2">>
SumA1A3 == <<"=", "A", "1", "+", "A", "3">>
SumA1B1 == <<"=", "A", "1", "+", "B", "1">>
IncA1 == <<"=", "A", "1", "+", "1">>

\* Edits of the single-replica behaviours: literals, formulas over them, the
\* two formulas that close a cycle, and a formula that reads its own cell
EngineEdits ==
  { Edit("set", A1, <<"1">>), Edit("set", A1, <<"5">>), Edit("set", A2, <<"2">>),
    Edit("set", A2, SumA1A3), Edit("set", A3, SumA1A2), Edit("set", A3, <<"4">>),
    Edit("set", A1, IncA1) }

NextEngine ==
  \/ \E e \in EngineEdits : Len(edits[1]) < MaxEngineEdits /\ setCell(1, e.coord, e.text)
  \/ \E c \in {A3} : Len(edits[1]) < MaxEngineEdits /\ clearCell(1, c)
  \/ Continue(1)
  \/ CleanupTransaction(1)

\* the provider of replica 1 alone on the topic, its sync-request timer over
Alone == timer = [r \in Replicas |-> FALSE] /\ subscribed = {1}
InitEngine == InitCommon /\ Alone /\ range = NoRange

\* One replica edited by its user
SpecEngine == InitEngine /\ [][NextEngine]_vars

\* Edits of the two-replica behaviours, in the order each user makes them:
\* replica 1 builds the sheet A1 = 10, C1 = A1 + B1, B1 = 20; replica 2 writes
\* A1 itself, then clears it
Script ==
  [r \in Replicas |->
     IF r = 1
     THEN <<Edit("set", A1, <<"1", "0">>), Edit("set", C1, SumA1B1), Edit("set", B1, <<"2", "0">>)>>
     ELSE <<Edit("set", A1, <<"5">>), Edit("clear", A1, <<>>)>>]
HasNextEdit(r, op) ==
  /\ EditsOf(Replicas) < MaxEdits
  /\ Len(edits[r]) < Len(Script[r]) /\ Script[r][Len(edits[r]) + 1].op = op
NextEdit(r) == Script[r][Len(edits[r]) + 1]

Next ==
  \/ \E r \in Replicas : HasNextEdit(r, "set") /\ setCell(r, NextEdit(r).coord, NextEdit(r).text)
  \/ \E r \in Replicas : HasNextEdit(r, "clear") /\ clearCell(r, NextEdit(r).coord)
  \/ \E r \in Replicas : Continue(r)
  \/ \E r \in Replicas : CleanupTransaction(r)
  \/ \E r \in Replicas : SyncRequestTimer(r)
  \/ \E r \in Replicas : HandlePubsubMessage(r)
  \/ \E r \in Replicas : HandleDuplicate(r)

Init ==
  InitCommon /\ timer = [r \in Replicas |-> TRUE] /\ subscribed = Replicas /\ range = NoRange

\* Two replicas on one topic
Spec == Init /\ [][Next]_vars

\* Most edits of a replica in the behaviours with messages that are none of
\* the protocol
MaxInboundEdits == 1
NextInbound ==
  \/ \E r \in Replicas :
       /\ Len(edits[r]) < MaxInboundEdits
       /\ setCell(r, Script[r][Len(edits[r]) + 1].coord, Script[r][Len(edits[r]) + 1].text)
  \/ \E r \in Replicas : Continue(r)
  \/ \E r \in Replicas : CleanupTransaction(r)
  \/ \E r \in Replicas : SyncRequestTimer(r)
  \/ \E r \in Replicas : HandlePubsubMessage(r)
  \/ \E r \in Replicas : StrayMessage(r)

\* Two replicas on one topic that also carries messages of other kinds
SpecInbound == Init /\ [][NextInbound]_vars

\* A provider whose destroy() leaves the message listener registered
destroyUpdateOnly(r) ==
  /\ Quiet /\ "update" \in attached[r]
  /\ attached' = [attached EXCEPT ![r] = @ \ {"update"}]
  /\ synced' = [synced EXCEPT ![r] = FALSE]
  /\ connected' = [connected EXCEPT ![r] = FALSE]
  /\ UNCHANGED <<doc, graph, txq, pc, handling, timer, net, last, sent, authored, edits,
                 mark, range, subscribed, ignored, peerExchange, ui>>

\* Libp2pProvider.destroy() of replica r, called between two handlers: both
\* listeners are removed and the topic is unsubscribed from, which may fail (the
\* rejection is logged); the timer of _requestInitialState and the
\* continuation of _subscribeToPubsub are left as they are
destroy(r) ==
  /\ Quiet /\ "update" \in attached[r]
  /\ attached' = [attached EXCEPT ![r] = @ \ {"update", "message"}]
  /\ \E unsubscribed \in BOOLEAN :
       subscribed' = IF unsubscribed THEN subscribed \ {r} ELSE subscribed
  /\ synced' = [synced EXCEPT ![r] = FALSE]
  /\ connected' = [connected EXCEPT ![r] = FALSE]
  /\ UNCHANGED <<doc, graph, txq, pc, handling, timer, net, last, sent, authored, edits,
                 mark, range, ignored, peerExchange, ui>>

\* Most edits of a replica in the behaviours with destroy()
MaxTeardownEdits == 1

NextTeardown ==
  \/ \E r \in Replicas :
       /\ Len(edits[r]) < MaxTeardownEdits
       /\ setCell(r, Script[r][Len(edits[r]) + 1].coord, Script[r][Len(edits[r]) + 1].text)
  \/ \E r \in Replicas : Continue(r)
  \/ \E r \in Replicas : CleanupTransaction(r)
  \/ \E r \in Replicas : SyncRequestTimer(r)
  \/ \E r \in Replicas : HandlePubsubMessage(r)
  \/ \E r \in Replicas : destroy(r)

\* Two replicas on one topic whose providers may be destroyed
SpecTeardown == Init /\ [][NextTeardown]_vars

\* Edits of replica 1 in the behaviours where a publish may fail: a literal, a
\* formula over it, and the clearing of the literal
UnpublishedScript ==
  <<Edit("set", A1, <<"1", "0">>), Edit("set", C1, SumA1B1), Edit("clear", A1, <<>>)>>

NextUnpublished ==
  \/ \E i \in {Len(edits[1]) + 1} \cap DOMAIN UnpublishedScript :
       /\ UnpublishedScript[i].op = "set"
       /\ setCell(1, UnpublishedScript[i].coord, UnpublishedScript[i].text)
  \/ \E i \in {Len(edits[1]) + 1} \cap DOMAIN UnpublishedScript :
       /\ UnpublishedScript[i].op = "clear"
       /\ clearCell(1, UnpublishedScript[i].coord)
  \/ \E r \in Replicas : Continue(r)
  \/ \E r \in Replicas : CleanupTransaction(r)
  \/ \E r \in Replicas : CleanupUnpublished(r)
  \/ \E r \in Replicas : SyncRequestTimer(r)
  \/ \E r \in Replicas : HandlePubsubMessage(r)

\* the timer of replica 2 is pending, that of replica 1 is over
InitUnpublished ==
  InitCommon /\ timer = [r \in Replicas |-> r = 2] /\ subscribed = Replicas /\ range = NoRange

\* Two replicas on one topic where the publishing of an update may fail
SpecUnpublished == InitUnpublished /\ [][NextUnpublished]_vars

\* the sync-response on its way to replica q is slow: the users edit and updates
\* are delivered before it arrives
LateSyncResponse(q) ==
  /\ Quiet
  /\ \E c \in net :
       /\ c.to = q /\ c.m.type = "sync-response" /\ ~c.m.late
       /\ net' = (net \ {c}) \cup {[c EXCEPT !.m.late = TRUE]}
  /\ UNCHANGED <<doc, graph, txq, pc, handling, synced, timer, last, sent, authored,
                 edits, mark, range, subscribed, ignored, attached, connected, peerExchange, ui>>

\* Edits of the behaviours with a slow sync-response: the responder has written
\* A1; the requester writes B1, then A1
LateScript ==
  [r \in Replicas |->
     IF r = 1 THEN <<Edit("set", A1, <<"1", "0">>)>>
     ELSE <<Edit("set", B1, <<"2", "0">>), Edit("set", A1, <<"5">>)>>]

NextLate ==
  \/ \E r \in Replicas : \E i \in {Len(edits[r]) + 1} \cap DOMAIN LateScript[r] :
       setCell(r, LateScript[r][i].coord, LateScript[r][i].text)
  \/ \E r \in Replicas : Continue(r)
  \/ \E r \in Replicas : CleanupTransaction(r)
  \/ \E r \in Replicas : SyncRequestTimer(r)
  \/ \E r \in Replicas : HandlePubsubMessage(r)
  \/ \E r \in Replicas : LateSyncResponse(r)

\* Two replicas on one topic, the second joining, where a sync-response may be
\* slow
SpecLate == InitUnpublished /\ [][NextLate]_vars

(***************************************************************************)
(* One replica whose user enters two formulas that read each other and     *)
(* then stops editing.  The configuration of the replica is what its       *)
(* further steps depend on: the stored fields of every cell, the graph,    *)
(* the statements left, and of every transaction awaiting cleanup its      *)
(* origin and the cells it changed (no map is deleted in these runs, so    *)
(* the changed cells of a waiting transaction stay what they are).         *)
(***************************************************************************)
LoopScript ==
  LET Twice(a, b) == <<"=">> \o a \o <<"+">> \o b \o <<"+">> \o b
  IN <<Edit("set", A1, <<"1">>), Edit("set", A2, Twice(A1, A3)), Edit("set", A3, Twice(A1, A2))>>

Config(r) ==
  LET StoredFields(d) ==
        [c \in CellKeys(d) |->
           [value |-> Field(d, c, VALUE), formula |-> Field(d, c, FORMULA),
            error |-> Field(d, c, ERRORF)]]
      Waiting(d, q) ==
        [i \in DOMAIN q |-> [origin |-> q[i].origin, cells |-> ChangedCells(d, q[i])]]
  IN [set |-> TRUE, cells |-> StoredFields(doc[r]), g |-> graph[r],
      q |-> Waiting(doc[r], txq[r]), pc |-> pc[r], writes |-> 0]

\* the user of replica r has made the last edit; the configuration is recorded
StopEditing(r) ==
  /\ ~mark.set /\ edits[r] = LoopScript
  /\ mark' = Config(r)
  /\ UNCHANGED <<doc, graph, txq, pc, handling, synced, timer, net, last, sent,
                 authored, edits, range, subscribed, ignored, attached, connected, peerExchange, ui>>

NextLoop ==
  \/ /\ Len(edits[1]) < Len(LoopScript)
     /\ setCell(1, LoopScript[Len(edits[1]) + 1].coord, LoopScript[Len(edits[1]) + 1].text)
  \/ Continue(1)
  \/ CleanupTransaction(1)
  \/ StopEditing(1)


\* One replica, two formulas that read each other, then no more edits
SpecLoop == InitEngine /\ [][NextLoop]_vars

\* Largest row and column index converted
MaxCoordRow == 10
MaxCoordCol == 54

\* coordToA1(row, col), and a1ToCoord of its result
ConvertCoord ==
  /\ ~range.done
  /\ range' = [range EXCEPT !.a1 = coordToA1(range.row, range.col),
                            !.back = a1ToCoord(coordToA1(range.row, range.col)),
                            !.done = TRUE]
  /\ UNCHANGED <<doc, graph, txq, pc, handling, synced, timer, net, last, sent, authored,
                 edits, mark, subscribed, ignored, attached, connected, peerExchange, ui>>

InitCoord ==
  /\ InitCommon /\ Alone
  /\ range \in { [row |-> row, col |-> col, a1 |-> <<>>, back |-> Undef, done |-> FALSE] :
                  row \in 0..MaxCoordRow, col \in 0..MaxCoordCol }

\* The coordinate conversions applied to one row and column
SpecCoord == InitCoord /\ [][ConvertCoord]_vars

\* Edits of replica 1 in the behaviours where a formula reads another formula
\* that was entered after it: C1 = A1 + B1, then B1 = A1 * 2, then A1 = 3
OrderScript ==
  <<Edit("set", C1, SumA1B1), Edit("set", B1, <<"=", "A", "1", "*", "2">>),
    Edit("set", A1, <<"3">>)>>

NextOrder ==
  \/ \E i \in {Len(edits[1]) + 1} \cap DOMAIN OrderScript :
       setCell(1, OrderScript[i].coord, OrderScript[i].text)
  \/ \E r \in Replicas : Continue(r)
  \/ \E r \in Replicas : CleanupTransaction(r)
  \/ \E r \in Replicas : SyncRequestTimer(r)
  \/ \E r \in Replicas : HandlePubsubMessage(r)

\* Two replicas, the first entering the formulas and then the value they read
SpecOrder == InitUnpublished /\ [][NextOrder]_vars

\* Edits of the behaviours in which the two replicas change the cells a formula
\* reads while the other's updates are under way: replica 1 enters
\* C1 = A1 + B1, B1 = 20 and A1 = 7, replica 2 enters A1 = 5
MergeScript ==
  [r \in Replicas |->
     IF r = 1
     THEN <<Edit("set", C1, SumA1B1), Edit("set", B1, <<"2", "0">>), Edit("set", A1, <<"7">>)>>
     ELSE <<Edit("set", A1, <<"5">>)>>]

NextMerge ==
  \/ \E r \in Replicas : \E i \in {Len(edits[r]) + 1} \cap DOMAIN MergeScript[r] :
       setCell(r, MergeScript[r][i].coord, MergeScript[r][i].text)
  \/ \E r \in Replicas : Continue(r)
  \/ \E r \in Replicas : CleanupTransaction(r)
  \/ \E r \in Replicas : HandlePubsubMessage(r)

\* Two replicas on the topic, their sync-request timers over
InitMerge ==
  InitCommon /\ timer = [r \in Replicas |-> FALSE] /\ subscribed = Replicas /\ range = NoRange
SpecMerge == InitMerge /\ [][NextMerge]_vars

\* An engine constructed without the scan of the store
NewSpreadsheetEngineNoRebuild(r) ==
  /\ Quiet /\ "observeDeep" \notin attached[r]
  /\ graph' = [graph EXCEPT ![r] = EmptyFn]
  /\ attached' = [attached EXCEPT ![r] = @ \cup {"observeDeep"}]
  /\ UNCHANGED <<doc, txq, pc, handling, synced, timer, net, last, sent, authored,
                 edits, mark, range, subscribed, ignored, connected, peerExchange, ui>>

\* new SpreadsheetEngine(yjsDoc) on replica r: observeDeep is registered and
\* the graph is built from the store as it is
NewSpreadsheetEngine(r) ==
  /\ Quiet /\ "observeDeep" \notin attached[r]
  /\ graph' = [graph EXCEPT ![r] = rebuildAllDependencies(doc[r])]
  /\ attached' = [attached EXCEPT ![r] = @ \cup {"observeDeep"}]
  /\ UNCHANGED <<doc, txq, pc, handling, synced, timer, net, last, sent, authored,
                 edits, mark, range, subscribed, ignored, connected, peerExchange, ui>>

\* Edits of the behaviours in which the engine of replica 2 is constructed
\* late: replica 1 enters C1 = A1 + B1 and B1 = 20, replica 2 enters A1 = 5
JoinScript ==
  [r \in Replicas |->
     IF r = 1 THEN <<Edit("set", C1, SumA1B1), Edit("set", B1, <<"2", "0">>)>>
     ELSE <<Edit("set", A1, <<"5">>)>>]

NextJoin ==
  \/ \E r \in Replicas : \E i \in {Len(edits[r]) + 1} \cap DOMAIN JoinScript[r] :
       "observeDeep" \in attached[r] /\ setCell(r, JoinScript[r][i].coord, JoinScript[r][i].text)
  \/ \E r \in Replicas : Continue(r)
  \/ \E r \in Replicas : CleanupTransaction(r)
  \/ \E r \in Replicas : HandlePubsubMessage(r)
  \/ \E r \in Replicas : NewSpreadsheetEngine(r)

\* Replica 2 has its document and its provider, and no engine yet
InitJoin ==
  /\ InitWith([r \in Replicas |-> IF r = 1 THEN {"observeDeep", "update", "message"}
                                            ELSE {"update", "message"}])
  /\ timer = [r \in Replicas |-> FALSE] /\ subscribed = Replicas /\ range = NoRange
SpecJoin == InitJoin /\ [][NextJoin]_vars

\* Most iterations a traversal is followed for
MaxSteps == 30

\* A queue loop without the visited set
BfsUnvisited(g, queue, visited, order, steps) ==
  [queue |-> Tail(queue) \o Dependents(g, queue[1]), visited |-> visited,
   order |-> Append(order, queue[1]), steps |-> steps + 1]

\* one iteration of the while loop of processChangedCells: queue.shift(), the
\* test of visited, visited.add and the push of the dependents; order lists
\* the cells whose dependents were pushed
BfsStep(g, queue, visited, order, steps) ==
  IF queue[1] \in visited
  THEN [queue |-> Tail(queue), visited |-> visited, order |-> order, steps |-> steps + 1]
  ELSE [queue |-> Tail(queue) \o Dependents(g, queue[1]), visited |-> visited \cup {queue[1]},
        order |-> Append(order, queue[1]), steps |-> steps + 1]
\* the while loop, followed for MaxSteps iterations at most
RECURSIVE BfsLoop(_, _)
BfsLoop(g, S) ==
  IF S.queue = <<>> \/ S.steps >= MaxSteps THEN S
  ELSE BfsLoop(g, BfsStep(g, S.queue, S.visited, S.order, S.steps))

\* A depth-first search that tests the path only
DfsUnvisited(coord, visited, path) ==
  IF coord \in path THEN "cycle" ELSE "enter"

\* the two tests hasCircularReference starts with
DfsTest(coord, visited, path) ==
  IF coord \in path THEN "cycle" ELSE IF coord \in visited THEN "seen" ELSE "enter"
\* hasCircularReference(coord, visited, path), followed for MaxSteps calls at
\* most: the result, the visited set, the cells entered in order and the
\* number of calls
RECURSIVE DfsCall(_, _, _, _), DfsLoop(_, _, _, _)
DfsCall(g, coord, path, S) ==
  IF S.steps >= MaxSteps THEN S
  ELSE LET T == [S EXCEPT !.steps = @ + 1]
           test == DfsTest(coord, S.visited, path)
       IN IF test = "cycle" THEN [T EXCEPT !.r = TRUE]
          ELSE IF test = "seen" THEN [T EXCEPT !.r = FALSE]
          ELSE DfsLoop(g, Dependents(g, coord), path \cup {coord},
                       [T EXCEPT !.visited = @ \cup {coord}, !.order = Append(@, coord)])
DfsLoop(g, deps, path, S) ==
  IF deps = <<>> \/ S.steps >= MaxSteps THEN [S EXCEPT !.r = FALSE]
  ELSE LET x == DfsCall(g, deps[1], path, S)
       IN IF x.r THEN x ELSE DfsLoop(g, Tail(deps), path, x)

\* The cells of the graphs the traversals are applied to
GraphCells == {A1, A2, A3}
\* a Set of cells in insertion order
Orderings ==
  { o \in UNION { [1..n -> GraphCells] : n \in 0..Cardinality(GraphCells) } :
      \A i, j \in DOMAIN o : o[i] = o[j] => i = j }

\* the two traversals applied to the graph and the cell of range
Walk ==
  /\ ~range.done
  /\ range' = [range EXCEPT
                 !.bfs = BfsLoop(range.g, [queue |-> <<range.start>>, visited |-> {},
                                           order |-> <<>>, steps |-> 0]),
                 !.dfs = DfsCall(range.g, range.start, {},
                                 [r |-> FALSE, visited |-> {}, order |-> <<>>, steps |-> 0]),
                 !.done = TRUE]
  /\ UNCHANGED <<doc, graph, txq, pc, handling, synced, timer, net, last, sent, authored,
                 edits, mark, subscribed, ignored, attached, connected, peerExchange, ui>>

InitWalk ==
  /\ InitCommon /\ Alone
  /\ range \in { [g |-> g, start |-> from, bfs |-> <<>>, dfs |-> <<>>, done |-> FALSE] :
                  g \in [GraphCells -> Orderings], from \in GraphCells }

\* The traversals applied to one graph and cell
SpecWalk == InitWalk /\ [][Walk]_vars

\* Edits of replica 1 in the behaviours where a formula is withdrawn: C1 = A1 + B1
\* is overwritten by the literal 4, entered again and cleared
RetractScript ==
  <<Edit("set", C1, SumA1B1), Edit("set", C1, <<"4">>), Edit("set", C1, SumA1B1),
    Edit("clear", C1, <<>>)>>

NextRetract ==
  \/ \E i \in {Len(edits[1]) + 1} \cap DOMAIN RetractScript :
       /\ RetractScript[i].op = "set"
       /\ setCell(1, RetractScript[i].coord, RetractScript[i].text)
  \/ \E i \in {Len(edits[1]) + 1} \cap DOMAIN RetractScript :
       /\ RetractScript[i].op = "clear"
       /\ clearCell(1, RetractScript[i].coord)
  \/ \E r \in Replicas : Continue(r)
  \/ \E r \in Replicas : CleanupTransaction(r)
  \/ \E r \in Replicas : HandlePubsubMessage(r)

\* Two replicas, the first entering and withdrawing a formula
SpecRetract == InitMerge /\ [][NextRetract]_vars

\* the subscribe call of _subscribeToPubsub resolves on replica r and the
\* function goes on: it registers the 'message' listener and sets connected;
\* when the call rejects, the catch block logs the error
SubscribeResolved(r) ==
  /\ Quiet /\ "subscribe" \in attached[r]
  /\ \E resolved \in BOOLEAN :
       /\ attached' = [attached EXCEPT
                         ![r] = (@ \ {"subscribe"}) \cup (IF resolved THEN {"message"} ELSE {})]
       /\ connected' = [connected EXCEPT ![r] = IF resolved THEN TRUE ELSE @]
  /\ UNCHANGED <<doc, graph, txq, pc, handling, synced, timer, net, last, sent, authored,
                 edits, mark, range, subscribed, ignored, peerExchange, ui>>

NextSubscribe ==
  \/ \E i \in {Len(edits[1]) + 1} \cap {1} :
       setCell(1, Script[1][i].coord, Script[1][i].text)
  \/ \E r \in Replicas : Continue(r)
  \/ \E r \in Replicas : CleanupTransaction(r)
  \/ \E r \in Replicas : SyncRequestTimer(r)
  \/ \E r \in Replicas : HandlePubsubMessage(r)
  \/ \E r \in Replicas : SubscribeResolved(r)
  \/ \E r \in Replicas : destroy(r)

\* The constructor of the provider of replica 2 has returned: subscribe has
\* been called and has not resolved, the timer is armed
InitSubscribe ==
  /\ InitWith([r \in Replicas |-> IF r = 1 THEN {"observeDeep", "update", "message"}
                                            ELSE {"observeDeep", "update", "subscribe"}])
  /\ timer = [r \in Replicas |-> r = 2] /\ subscribed = Replicas /\ range = NoRange
SpecSubscribe == InitSubscribe /\ [][NextSubscribe]_vars

NextPeerExchange ==
  \/ start
  \/ stop
  \/ \E conn \in Connections : ConnectionOpen(conn)
  \/ \E conn \in Connections : ConnectionClose(conn)
  \/ \E peerId \in PeerIds, addrs \in 0..MaxAddrs : handlePeerExchange(peerId, addrs)
  \/ \E d \in peerExchange.dialing, ok \in BOOLEAN : DialResolved(d, ok)

\* One node with its peer-exchange service, started and stopped, among two peers
SpecPeerExchange == InitMerge /\ [][NextPeerExchange]_vars

(***************************************************************************)
(* SpreadsheetUI: the input of a cell of the grid, with the focus, blur    *)
(* and keydown listeners that createGrid registers on it.                  *)
(***************************************************************************)
\* what an input shows when a value is assigned to it: its text
ToText(v) == IF v.k = "num" THEN numToString(v.n) ELSE v.s
\* String.prototype.trim
Trim(s) == TrimRight(SkipSpaces(s))
\* the blur handler has decided on a call of the engine that is still to be made
Calling == ui.call # <<>> /\ ui.at = Len(edits[1])

\* the focus listener of the input of coord: the input shows the formula of a
\* formula cell (and the value otherwise, as updateCellDisplay left it)
Focus(coord) ==
  /\ Quiet /\ ui.focus = <<>> /\ ~Calling
  /\ LET cell == getCell(doc[1], coord)
     IN ui' = IF Truthy(cell.formula)
              THEN [focus |-> coord, input |-> cell.formula.s,
                    originalValue |-> Trim(cell.formula.s), call |-> <<>>, at |-> 0]
              ELSE [focus |-> coord, input |-> ToText(cell.value),
                    originalValue |-> Trim(ToText(cell.value)), call |-> <<>>, at |-> 0]
  /\ UNCHANGED <<doc, graph, txq, pc, handling, synced, timer, net, last, sent, authored,
                 edits, mark, range, subscribed, ignored, attached, connected, peerExchange>>

\* the user replaces the text of the focused input
Type(text) ==
  /\ ui.focus # <<>> /\ ui.input # text
  /\ ui' = [ui EXCEPT !.input = text]
  /\ UNCHANGED <<doc, graph, txq, pc, handling, synced, timer, net, last, sent, authored,
                 edits, mark, range, subscribed, ignored, attached, connected, peerExchange>>

\* the blur listener, for an input that holds text: clearCell or setCell if the
\* trimmed text differs from originalValue, else the input shows the value again
BlurWith(text) ==
  /\ ui' = IF Trim(text) # ui.originalValue
           THEN [ui EXCEPT !.focus = <<>>, !.input = text, !.at = Len(edits[1]),
                           !.call = <<Edit(IF Trim(text) = <<>> THEN "clear" ELSE "set",
                                           ui.focus, Trim(text))>>]
           ELSE [ui EXCEPT !.focus = <<>>, !.input = ToText(getCell(doc[1], ui.focus).value)]
  /\ UNCHANGED <<doc, graph, txq, pc, handling, synced, timer, net, last, sent, authored,
                 edits, mark, range, subscribed, ignored, attached, connected, peerExchange>>

\* the focus leaves the input (the user clicks elsewhere)
Blur == ui.focus # <<>> /\ BlurWith(ui.input)

\* handleCellKeydown with the Escape key: input.value = cell.value || '', then
\* input.blur(), which runs the blur listener
Escape == ui.focus # <<>> /\ BlurWith(ToText(getCell(doc[1], ui.focus).value))

\* the call of the engine that the blur listener makes
BlurCall ==
  /\ Calling
  /\ IF ui.call[1].op = "clear" THEN clearCell(1, ui.call[1].coord)
     ELSE setCell(1, ui.call[1].coord, ui.call[1].text)

\* What the user types into a cell: a number into A1, a formula over it into A2
Typed == [coord \in {A1, A2} |-> IF coord = A1 THEN <<"5">> ELSE IncA1]

NextUI ==
  \/ \E coord \in DOMAIN Typed : Focus(coord)
  \/ ui.focus # <<>> /\ Type(Typed[ui.focus])
  \/ Blur
  \/ Escape
  \/ BlurCall
  \/ Continue(1)
  \/ CleanupTransaction(1)

\* One replica edited through the grid
SpecUI == InitEngine /\ [][NextUI]_vars

(***************************************************************************)
(* The reference parser and SUM applied to the two orders of a pair of     *)
(* corners, over the sheet A1 = 10, B1 = 20, A2 = 'x', B2 = '=1/0' that    *)
(* replica 1 authors and replica 2 receives.                               *)
(***************************************************************************)
MaxCol == 2
MaxRow == 2
B2 == <<"B", "2">>
DivByZero == <<"=", "1", "/", "0">>
RangeScript ==
  <<Edit("set", A1, <<"1", "0">>), Edit("set", B1, <<"2", "0">>),
    Edit("set", A2, <<"x">>), Edit("set", B2, DivByZero)>>
SumText(p, q) == <<"=", "S", "U", "M", "(">> \o p \o <<":">> \o q \o <<")">>
\* extractReferences and evaluate applied to '=SUM(p:q)' and to '=SUM(q:p)' on
\* replica 1, and evaluate applied to '=SUM(p:q)' on replica 2, for a formula
\* in a cell outside the ranges
SumRange ==
  /\ Quiet /\ ~range.done
  /\ range' = [range EXCEPT !.done = TRUE,
                 !.refsPQ = extractReferences(SumText(range.p, range.q)),
                 !.refsQP = extractReferences(SumText(range.q, range.p)),
                 !.sumPQ = evaluate(doc[1], SumText(range.p, range.q),
                                   coordToA1(MaxCol + 1, MaxRow + 1)),
                 !.sumQP = evaluate(doc[1], SumText(range.q, range.p),
                                   coordToA1(MaxCol + 1, MaxRow + 1)),
                 !.recv = evaluate(doc[2], SumText(range.p, range.q),
                                   coordToA1(MaxCol + 1, MaxRow + 1))]
  /\ UNCHANGED <<doc, graph, txq, pc, handling, synced, timer, net, last, sent,
                 authored, edits, mark, subscribed, ignored, attached, connected, peerExchange, ui>>

NextRange ==
  \/ /\ Len(edits[1]) < Len(RangeScript)
     /\ setCell(1, RangeScript[Len(edits[1]) + 1].coord, RangeScript[Len(edits[1]) + 1].text)
  \/ \E r \in Replicas : Continue(r)
  \/ \E r \in Replicas : CleanupTransaction(r)
  \/ \E r \in Replicas : HandlePubsubMessage(r)
  \/ SumRange

InitRange ==
  /\ InitCommon /\ timer = [r \in Replicas |-> FALSE] /\ subscribed = Replicas
  /\ range \in { [NoRange EXCEPT !.p = coordToA1(rowP, colP), !.q = coordToA1(rowQ, colQ)] :
                  rowP \in 0..MaxRow, colP \in 0..MaxCol, rowQ \in 0..MaxRow, colQ \in 0..MaxCol }

\* The author of a sheet, a replica that receives it, and the parser and SUM
\* applied to a pair of corners
SpecRange == InitRange /\ [][NextRange]_vars

(***************************************************************************)
(* Properties of the engine on one replica (SpecEngine).                   *)
(***************************************************************************)
Edited(r) == edits[r] # <<>>
LastEdit(r) == edits[r][Len(edits[r])]
IsFormulaText(text) == text # <<>> /\ text[1] = "="
\* the call of the latest edit of replica r has returned
Returned(r) == Edited(r) /\ Idle(r)
ReturnedLiteral(r) == Returned(r) /\ LastEdit(r).op = "set" /\ ~IsFormulaText(LastEdit(r).text)
ReturnedFormula(r) == Returned(r) /\ LastEdit(r).op = "set" /\ IsFormulaText(LastEdit(r).text)
IsTag(v) == v = Str(CIRCULAR)
IsNumeric(v) == v.k = "num"

\* C5: when setCell(coord, literal) returns, getCell(coord) is the literal
\* with formula null and error false, whatever the cell held before
LiteralStored ==
  ReturnedLiteral(1) =>
    getCell(doc[1], LastEdit(1).coord)
      = [value |-> Str(LastEdit(1).text), formula |-> Null, error |-> False]

\* C6: when setCell(coord, formula) returns and coord is on a cycle of the
\* dependency graph, the cell holds '#CIRCULAR!', the formula as entered and
\* error = true
CycleTagged ==
  (ReturnedFormula(1) /\ hasCircularReference(graph[1], LastEdit(1).coord)) =>
    getCell(doc[1], LastEdit(1).coord)
      = [value |-> Str(CIRCULAR), formula |-> Str(LastEdit(1).text), error |-> True]

\* C7: after A1 = 1, A2 = '=A1+A3', A3 = '=A1+A2' entered in that order, from
\* the moment the third setCell has stored the formula of A3, A3 holds the
\* circular-reference tag and neither A2 nor A3 shows a number
CycleScenario ==
  <<Edit("set", A1, <<"1">>), Edit("set", A2, SumA1A3), Edit("set", A3, SumA1A2)>>
CycleRejected ==
  (edits[1] = CycleScenario /\ getCell(doc[1], A3).formula = Str(SumA1A2)) =>
    /\ IsTag(getCell(doc[1], A3).value)
    /\ ~IsNumeric(getCell(doc[1], A2).value)
    /\ ~IsNumeric(getCell(doc[1], A3).value)

\* C8: a cell whose value is the cycle-error tag keeps the tag through every
\* recompute pass (a step that is no statement of setCell or clearCell)
RecomputePass == edits' = edits /\ pc' = pc /\ txq' # txq
TagKept ==
  [][\A c \in {A1, A2, A3} :
       (RecomputePass /\ IsTag(Field(doc[1], c, VALUE))) => IsTag(Field(doc[1], c, VALUE))']_vars

\* the cells the formula of c reads, and the cells those read
RefsOf(d, c) ==
  IF HasFormula(d, c)
  THEN { extractReferences(Field(d, c, FORMULA).s)[i] :
           i \in 1..Len(extractReferences(Field(d, c, FORMULA).s)) }
  ELSE {}
RECURSIVE PrecedentsFrom(_, _, _)
PrecedentsFrom(d, frontier, seen) ==
  IF frontier \subseteq seen THEN seen
  ELSE PrecedentsFrom(d, UNION { RefsOf(d, c) : c \in frontier }, seen \cup frontier)
Precedents(d, c) == PrecedentsFrom(d, RefsOf(d, c), {})

\* C9: when a literal setCell on a cell returns, every formula cell that
\* reads it, directly or through other formulas, holds its formula evaluated
\* over the stored values; after A1 = 1, A2 = 2, A3 = '=A1+A2', A1 = 5 the cell
\* A3 holds 7 and its formula
PropagationScenario ==
  <<Edit("set", A1, <<"1">>), Edit("set", A2, <<"2">>), Edit("set", A3, SumA1A2),
    Edit("set", A1, <<"5">>)>>
Edges(g) == UNION { { <<ref, c>> : c \in RangeOf(g[ref]) } : ref \in DOMAIN g }
\* C20: when the engine is idle the edges of the dependency graph are the
\* pairs ref -> cell with cell holding a formula that refers to ref, which is
\* the graph rebuildAllDependencies makes of the store
GraphIsCache ==
  Idle(1) =>
    /\ Edges(graph[1])
         = UNION { { <<ref, c>> : ref \in RefsOf(doc[1], c) } : c \in CellKeys(doc[1]) }
    /\ Edges(graph[1]) = Edges(rebuildAllDependencies(doc[1]))

\* C12: when setCell('A1', '=A1+1') returns on a sheet with no other formula,
\* A1 holds 1 (its own reference read as 0), its formula, and error = false:
\* the reference of a cell to itself is no cycle
SelfReference ==
  (ReturnedFormula(1) /\ LastEdit(1) = Edit("set", A1, IncA1)
     /\ \A c \in CellKeys(doc[1]) \ {A1} : ~HasFormula(doc[1], c)) =>
    getCell(doc[1], A1) = [value |-> Num(1), formula |-> Str(IncA1), error |-> False]

NotifiedOnce ==
  \A r \in Replicas :
    txq[r] # <<>> =>
      LET Once(notified, all) ==
            /\ RangeOf(notified) = all
            /\ \A i, j \in 1..Len(notified) : notified[i] = notified[j] => i = j
          Of(changedCells) ==
            RangeOf(changedCells)
              \cup RangeOf(ToRecalculate(doc[r], RebuildChanged(doc[r], graph[r], changedCells),
                                       changedCells))
      IN Once(handleDeepCellChanges(Engine(r), r, txq[r][1]).notified,
              Of(ChangedCells(doc[r], txq[r][1])))

(***************************************************************************)
(* Properties of two replicas on one topic (Spec).                         *)
(***************************************************************************)
Ids(items) == { it.id : it \in items }
\* replica r holds every struct and every deletion of the update u
Holds(r, u) == Ids(u.items) \subseteq DOMAIN doc[r].items /\ u.ds \subseteq doc[r].del
\* The replicas have exchanged all deltas: no handler runs, they hold the same
\* structs, and whatever is still in flight carries nothing its receiver lacks
Exchanged ==
  /\ Quiet
  /\ \A r \in Replicas : doc[r].pend = {} /\ doc[r].pendDs = {}
  /\ \A r, p \in Replicas : DOMAIN doc[r].items = DOMAIN doc[p].items
  /\ \A c \in net : c.m.type # "sync-request" => Holds(c.to, c.m)

Concurrent(d, a, b) ==
  /\ a[1] # b[1] /\ d.items[a].parent = d.items[b].parent
  /\ d.items[a].key = d.items[b].key /\ d.items[a].origin = d.items[b].origin
NoEcho == \A r \in Replicas : sent[r] = authored[r]

\* the sync-response replica r handled latest answers a request made from an
\* empty store, after replica p made all its edits
JoinedLate(r, p) ==
  /\ Idle(r) /\ edits[r] = <<>> /\ edits[p] = Script[p]
  /\ last[r].type = "sync-response" /\ last[r].from = p
  /\ Ids(last[r].items) = DOMAIN doc[p].items
\* C4: a replica that starts empty after a peer has written A1 = 10, B1 = 20,
\* C1 = '=A1+B1', and handles one sync-response to its sync-request, has
\* C1 = 30 with the formula, and the values of A1 and B1
LateJoiner ==
  JoinedLate(2, 1) =>
    /\ getCell(doc[2], C1).value = Num(30)
    /\ getCell(doc[2], C1).formula = Str(SumA1B1)
    /\ getCell(doc[2], A1).value = Str(<<"1", "0">>)
    /\ getCell(doc[2], B1).value = Str(<<"2", "0">>)
SameCells(d, e) == getAllCells(d) = getAllCells(e)
\* C13: a replica that is delivered once more the update or sync-response it
\* handled before keeps its cells: the handler of the second delivery writes
\* nothing to the store, its recompute pass included, and publishes nothing
IdempotentMerge ==
  [][\A r \in Replicas :
       (handling[r] = "again" \/ handling'[r] = "again") =>
         /\ SameCells(doc[r], doc'[r])
         /\ doc'[r].items = doc[r].items /\ doc'[r].del = doc[r].del
         /\ sent'[r] = sent[r]
         /\ \A c \in net' \ net : c.m.from # r]_vars
\* the second delivery of an update that carries cells is being handled
IdempotentMergeReached ==
  \E r \in Replicas :
    /\ handling[r] = "again" /\ last[r].type = "update"
    /\ last[r].items # {} /\ Ids(last[r].items) \subseteq DOMAIN doc[r].items
    /\ \E c \in CellKeys(doc[r]) : getCell(doc[r], c).value # Undef

(***************************************************************************)
(* Properties of the provider's handling of inbound messages               *)
(* (SpecInbound).                                                          *)
(***************************************************************************)
\* replica r handles the copy c in this step
Handles(r, c) == c \in net /\ c.to = r /\ c \notin net'
\* nothing of replica r but its record of discarded messages changes, and
\* nothing is published
NoEffect(r, c) ==
  /\ doc'[r] = doc[r] /\ graph'[r] = graph[r] /\ synced'[r] = synced[r]
  /\ txq'[r] = <<>> /\ pc'[r] = <<>>
  /\ sent' = sent /\ net' = net \ {c}
Lacking(d, sv) == { d.items[id] : id \in { x \in DOMAIN d.items : x[2] >= sv[x[1]] } }
\* C17: a replica that handles a sync-request of another peer publishes one
\* message, a sync-response on the topic with the items of its store, those
\* it keeps pending included, that the request's state vector lacks, no
\* other item, and the deletions it knows, applied or pending; its own store
\* does not change
SyncRequestAnswered ==
  [][\A r \in Replicas : \A c \in net :
       (Handles(r, c) /\ c.m.type = "sync-request" /\ c.m.topic = Topic /\ c.m.from # r) =>
         /\ doc'[r] = doc[r]
         /\ \E x \in net' \ net :
              /\ net' = (net \ {c}) \cup {x}
              /\ x.to = c.m.from /\ x.m.from = r
              /\ x.m.topic = Topic /\ x.m.type = "sync-response"
              /\ x.m.items = Lacking(doc[r], c.m.sv)
                                \cup { it \in doc[r].pend : it.id[2] >= c.m.sv[it.id[1]] }
              /\ x.m.ds = doc[r].del \cup doc[r].pendDs]_vars
\* a sync-response in flight carries a part of the responder's items, the
\* requester having declared the rest
SyncRequestAnsweredReached ==
  \E c \in net :
    /\ c.m.type = "sync-response" /\ c.m.topic = Topic /\ c.m.items # {}
    /\ Ids(c.m.items) # DOMAIN doc[c.m.from].items
    /\ Ids(c.m.items) \cap DOMAIN doc[c.to].items = {}

\* C18: a provider publishes a sync-request only when its join timer fires,
\* which it does once: the request carries the state vector of the store at
\* that moment, and nothing arms the timer again, whether or not an answer
\* arrives
SyncRequestOnce ==
  [][\A r \in Replicas :
       /\ timer'[r] => timer[r]
       /\ (timer[r] /\ ~timer'[r]) =>
            \E x \in net' \ net :
              /\ x.m.from = r /\ x.m.type = "sync-request" /\ x.m.topic = Topic
              /\ x.m.sv = StateVector(doc[r])
       /\ \A x \in net' \ net :
            (x.m.from = r /\ x.m.type = "sync-request") =>
              timer[r] /\ ~timer'[r] /\ x.m.sv = StateVector(doc[r])]_vars
\* a sync-request in flight declares the items its sender had written before
\* the timer fired
SyncRequestOnceReached ==
  \E c \in net :
    /\ c.m.type = "sync-request" /\ c.m.topic = Topic /\ ~timer[c.m.from]
    /\ c.m.sv = StateVector(doc[c.m.from]) /\ c.m.sv[c.m.from] > 0

\* C19: the cleanup of a transaction that changed the store and did not come
\* from the network (a write of setCell or clearCell, origin null) publishes
\* in the same step one update with the items and deletions of the
\* transaction; the cleanup of a transaction whose origin is the provider
\* publishes nothing
LocalChangesBroadcast ==
  [][\A r \in Replicas :
       txq[r] # <<>> =>
         /\ (txq[r][1].origin = "local" /\ HasContent(doc[r], txq[r][1])) =>
              \E x \in net' \ net :
                /\ { y \in net' \ net : y.to = x.to } = {x}
                /\ x.m.from = r /\ x.m.type = "update" /\ x.m.topic = Topic
                /\ Lacking(doc[r], txq[r][1].before) \subseteq x.m.items
                /\ x.m.ds = txq[r][1].ds
                /\ sent'[r] = sent[r] + 1
         /\ txq[r][1].origin = "provider" => (net' \subseteq net /\ sent' = sent)]_vars
\* a replica has broadcast the cells its user wrote, and the replica that
\* applied them has broadcast nothing
LocalChangesBroadcastReached ==
  \E r \in Replicas : \E p \in Replicas \ {r} :
    /\ Quiet /\ edits[r] # <<>> /\ sent[r] > 0
    /\ edits[p] = <<>> /\ sent[p] = 0 /\ synced[p]
    /\ last[p].type = "update" /\ last[p].from = r /\ last[p].items # {} /\ Holds(p, last[p])

\* C16: a message of another topic, or one whose sender is the replica itself,
\* changes neither the store nor the synced flag and makes the replica
\* publish nothing, whatever its type and payload
InboundFiltered ==
  [][\A r \in Replicas : \A c \in net :
       (Handles(r, c) /\ (c.m.topic # Topic \/ c.m.from = r)) => NoEffect(r, c)]_vars
\* a replica with no cell has discarded an update of another topic that
\* carried cells
InboundFilteredReached ==
  \E r \in Replicas :
       /\ ignored[r] # <<>> /\ ignored[r][1].topic # Topic /\ ignored[r][1].from # r
       /\ ignored[r][1].type = "update" /\ ignored[r][1].items
       /\ DOMAIN doc[r].items = {}

LateJoinerReached ==
  /\ JoinedLate(2, 1) /\ synced[2] /\ sent[2] = 0
  /\ getCell(doc[2], C1) = [value |-> Num(30), formula |-> Str(SumA1B1), error |-> False]

(***************************************************************************)
(* Properties of replicas whose providers may be destroyed (SpecTeardown). *)
(***************************************************************************)
\* destroy() has been called on the provider of replica r
Destroyed(r) == ~({"update", "message"} \subseteq attached[r])

FailedPublishKeepsEdit ==
  /\ ReturnedLiteral(1) =>
       getCell(doc[1], LastEdit(1).coord)
         = [value |-> Str(LastEdit(1).text), formula |-> Null, error |-> False]
  /\ ReturnedFormula(1) =>
       /\ getCell(doc[1], LastEdit(1).coord).formula = Str(LastEdit(1).text)
       /\ getCell(doc[1], LastEdit(1).coord).error = False
  /\ (Returned(1) /\ LastEdit(1).op = "clear") => LastEdit(1).coord \notin CellKeys(doc[1])
  /\ (Returned(1) /\ Len(edits[1]) >= 2) =>
       /\ Edges(graph[1]) = {<<A1, C1>>, <<B1, C1>>}
       /\ handling[1] = "none"
  /\ \A x \in net :
       (x.m.type = "sync-response" /\ x.m.from = 1) =>
         /\ Lacking(doc[1], StateVector(doc[x.to])) \subseteq x.m.items
         /\ doc[1].del \subseteq x.m.ds
\* no update of replica 1 was published, its three calls have returned, and its
\* answer to the sync-request of replica 2 is in flight
FailedPublishKeepsEditReached ==
  /\ sent[1] = 0 /\ Len(edits[1]) = Len(UnpublishedScript) /\ Returned(1)
  /\ doc[2] = EmptyDoc
  /\ \E x \in net : x.m.type = "sync-response" /\ x.m.from = 1 /\ x.to = 2 /\ x.m.ds # {}

\* C25: a sync-response that a replica handles carries every item of the
\* responder's store that its own store lacks, lost updates included, and every
\* deletion; when it has applied the response its store holds every item and
\* deletion of the responder's, and the responder's cells if it had nothing the
\* responder lacked
LostUpdateRecovered ==
  [][\A q \in Replicas : \A c \in net :
       (Handles(q, c) /\ c.m.type = "sync-response" /\ c.m.topic = Topic /\ c.m.from # q) =>
         /\ Lacking(doc[c.m.from], StateVector(doc[q])) \subseteq c.m.items
         /\ doc[c.m.from].del \subseteq c.m.ds
         /\ DOMAIN doc[c.m.from].items \subseteq DOMAIN doc'[q].items
         /\ doc[c.m.from].del \subseteq doc'[q].del
         /\ (DOMAIN doc[q].items \subseteq DOMAIN doc[c.m.from].items) =>
              SameCells(doc'[q], doc[c.m.from])]_vars
\* an update of replica 1 has not reached replica 2, which holds its items from
\* the sync-response it handled latest, the formula of C1 among them
LostUpdateRecoveredReached ==
  /\ last[2].type = "sync-response" /\ last[2].items # {}
  /\ \E c \in net :
       /\ c.to = 2 /\ c.m.type = "update" /\ c.m.from = 1 /\ c.m.items # {}
       /\ Ids(c.m.items) \subseteq DOMAIN doc[2].items
       /\ Ids(c.m.items) \subseteq Ids(last[2].items)
  /\ getCell(doc[2], C1).formula = Str(SumA1B1)

(***************************************************************************)
(* Properties of a requester that edits before the answer arrives          *)
(* (SpecLate).                                                             *)
(***************************************************************************)
\* the cells that the update u writes when replica q applies it: those of the
\* entries it adds and of the entries it deletes
WrittenBy(q, u) ==
  LET ItemOf(id) == IF id \in DOMAIN doc[q].items THEN doc[q].items[id]
                    ELSE CHOOSE it \in u.items : it.id = id
      CoordOf(it) == IF it.parent = Root THEN it.key ELSE ItemOf(it.parent).key
  IN { CoordOf(it) : it \in u.items }
       \cup { CoordOf(ItemOf(id)) : id \in { x \in u.ds : x \in DOMAIN doc[q].items \cup Ids(u.items) } }

\* C26: a replica that handles a sync-response after it has edited keeps every
\* cell the response does not write; and when the response is handled, no
\* handler runs, the updates of the requester have reached the responder and
\* the requester holds what the updates still on their way to it carry, both
\* replicas return the same cells
LateResponseConverges ==
  [][/\ \A q \in Replicas : \A c \in net :
          (Handles(q, c) /\ c.m.type = "sync-response" /\ c.m.late /\ Edited(q)) =>
            \A coord \in CellKeys(doc[q]) \ WrittenBy(q, c.m) :
              getCell(doc'[q], coord) = getCell(doc[q], coord)
     /\ (/\ Quiet' /\ last'[2].type = "sync-response"
         /\ \A c \in net' : c.to = 2 /\ c.m.type = "update" /\ Holds(2, c.m)') =>
          SameCells(doc'[1], doc'[2])]_vars
\* replica 2 wrote B1 and A1 before it knew of the A1 of replica 1, whose
\* updates have not reached it; it has handled the slow answer to its
\* sync-request, which wrote A1, and its own updates have reached replica 1
LateResponseConvergesReached ==
  /\ Quiet /\ last[2].type = "sync-response" /\ last[2].late
  /\ A1 \in WrittenBy(2, last[2]) /\ B1 \notin WrittenBy(2, last[2])
  /\ Len(edits[2]) = Len(LateScript[2])
  /\ \E a, b \in DOMAIN doc[2].items : Concurrent(doc[2], a, b)
  /\ \A c \in net : c.to = 2 /\ c.m.type = "update"
  /\ \E c \in net : A1 \in WrittenBy(2, c.m)
  /\ getCell(doc[2], B1).value = Str(<<"2", "0">>)
  /\ A1 \in CellKeys(doc[1])

(***************************************************************************)
(* Properties of the recompute loop (SpecLoop) and of ranges (SpecRange).  *)
(***************************************************************************)
\* C3: once local edits have stopped the replica comes to rest: no message
\* is published and no recompute pass writes from some point on.  A replica
\* that comes to rest on every run never returns, after a write, to a
\* configuration it was in since the edits stopped
ComesToRest == ~(mark.set /\ mark.writes > 0 /\ [Config(1) EXCEPT !.writes = mark.writes] = mark)

SetOf(seq) == { seq[i] : i \in DOMAIN seq }
Between(x, y) == { z \in 0..(MaxRow + MaxCol) : (x <= z /\ z <= y) \/ (y <= z /\ z <= x) }
\* the cells of the inclusive rectangle between two corners
Rectangle(a, b) == { coordToA1(r, c) : r \in Between(a.row, b.row), c \in Between(a.col, b.col) }
\* C10: the references of P:Q are those of Q:P, every cell of the rectangle
\* between the corners, and SUM(P:Q) = SUM(Q:P); with A1 = 10 and B1 = 20,
\* '=SUM(B1:A1)' is 30
CornerOrder ==
  range.done =>
    /\ SetOf(range.refsPQ) = SetOf(range.refsQP)
    /\ SetOf(range.refsPQ) = Rectangle(a1ToCoord(range.p), a1ToCoord(range.q))
    /\ range.sumPQ = range.sumQP
    /\ (edits[1] = RangeScript /\ range.p = B1 /\ range.q = A1) => range.sumPQ = Num(30)

\* C14: when setCell(coord, formula) returns for a formula off every cycle,
\* the cell holds a number with error = false or, the evaluation having
\* failed, '#ERROR!' with error = true; B2 = '=1/0' holds '#ERROR!' and
\* error = true
ErrorFlagged ==
  (ReturnedFormula(1) /\ ~hasCircularReference(graph[1], LastEdit(1).coord)) =>
    /\ getCell(doc[1], LastEdit(1).coord).formula = Str(LastEdit(1).text)
    /\ \/ /\ IsNumeric(getCell(doc[1], LastEdit(1).coord).value)
          /\ getCell(doc[1], LastEdit(1).coord).error = False
       \/ /\ getCell(doc[1], LastEdit(1).coord).value = Str(ERROR)
          /\ getCell(doc[1], LastEdit(1).coord).error = True
    /\ LastEdit(1) = Edit("set", B2, DivByZero) =>
         getCell(doc[1], B2).value = Str(ERROR)

\* the corner p is above and to the left of the corner q, or is q
TopLeftFirst(p, q) == a1ToCoord(p).row <= a1ToCoord(q).row /\ a1ToCoord(p).col <= a1ToCoord(q).col
RECURSIVE SumOver(_, _)
\* the numeric values of the cells of S added up, a cell that is blank or holds
\* a text that is no number counting 0
SumOver(d, S) ==
  IF S = {} THEN 0
  ELSE LET c == CHOOSE x \in S : TRUE IN NumericOf(d, c) + SumOver(d, S \ {c})
\* C11: '=SUM(p:q)' with p the top-left corner evaluates, on the replica that
\* authored the cells and on a replica that received them, to the sum of the
\* numeric values of the cells of the inclusive rectangle from p to q, blank
\* cells, texts and error tags counting 0
SumOfRectangle ==
  [][(~range.done /\ range'.done /\ TopLeftFirst(range.p, range.q)) =>
       /\ range'.sumPQ = Num(SumOver(doc[1], Rectangle(a1ToCoord(range.p), a1ToCoord(range.q))))
       /\ range'.recv = Num(SumOver(doc[2], Rectangle(a1ToCoord(range.p), a1ToCoord(range.q))))]_vars
\* SUM(A1:B2) is 30 on both replicas, over A1 = 10, B1 = 20, the text in A2
\* and the error tag in B2
SumOfRectangleReached ==
  /\ range.done /\ range.p = A1 /\ range.q = B2
  /\ \A r \in Replicas :
       /\ getCell(doc[r], A1).value = Str(<<"1", "0">>)
       /\ getCell(doc[r], B1).value = Str(<<"2", "0">>)
       /\ getCell(doc[r], A2).value = Str(<<"x">>)
       /\ getCell(doc[r], B2).value = Str(ERROR)
  /\ range.sumPQ = Num(30) /\ range.recv = Num(30)


(***************************************************************************)
(* Properties of the coordinate conversions (SpecCoord).                   *)
(***************************************************************************)
\* C27: a1ToCoord(coordToA1(row, col)) is (row, col), for columns past Z too,
\* and no other row and column have the text of coordToA1(row, col)
CoordRoundTrip ==
  range.done =>
    /\ range.back = [col |-> range.col, row |-> range.row]
    /\ \A row \in 0..MaxCoordRow, col \in 0..MaxCoordCol :
         coordToA1(row, col) = range.a1 => (row = range.row /\ col = range.col)
\* row 10 of column 26 was converted to AA11 and back
CoordRoundTripReached ==
  /\ range.done /\ range.row = 10 /\ range.col = 26
  /\ range.a1 = <<"A", "A", "1", "1">> /\ range.back = [col |-> 26, row |-> 10]

(***************************************************************************)
(* Properties of the grid (SpecUI).                                        *)
(***************************************************************************)
\* C28: focusing a formula cell shows the text of its formula in the input;
\* when the focus leaves the cell, by a blur or by the Escape key, with that
\* text unchanged, no call of setCell or clearCell is made and the input shows
\* the value of the cell
FocusKeepsFormula ==
  [][/\ (ui.focus = <<>> /\ ui'.focus # <<>> /\ Truthy(getCell(doc[1], ui'.focus).formula)) =>
          ui'.input = getCell(doc[1], ui'.focus).formula.s
     /\ (/\ ui.focus # <<>> /\ ui'.focus = <<>>
         /\ Truthy(getCell(doc[1], ui.focus).formula)
         /\ ui.input = getCell(doc[1], ui.focus).formula.s) =>
          /\ ui'.call = <<>>
          /\ ui'.input = ToText(getCell(doc[1], ui.focus).value)]_vars

(***************************************************************************)
(* Exactness of the cycle detection of setCell (SpecEngine).               *)
(***************************************************************************)
\* the cells reached from the cells of frontier through one or more edges
RECURSIVE ReachedFrom(_, _, _)
ReachedFrom(edges, frontier, seen) ==
  LET next == { e[2] : e \in { x \in edges : x[1] \in frontier } }
  IN IF next \subseteq seen THEN seen ELSE ReachedFrom(edges, next \ seen, seen \cup next)
\* the edges ref -> cell of the formulas stored in d, with text as the
\* formula of coord
FormulaEdges(d, coord, text) ==
  UNION { { <<ref, c>> : ref \in RefsOf(d, c) } : c \in CellKeys(d) \ {coord} }
    \cup { <<extractReferences(text)[i], coord>> : i \in 1..Len(extractReferences(text)) }
\* setCell(coord, formula) of replica r has taken its branch and has its
\* write of the error field left to do
FormulaBranchTaken(r) ==
  /\ Edited(r) /\ LastEdit(r).op = "set" /\ IsFormulaText(LastEdit(r).text)
  /\ pc[r] # <<>>
  /\ pc[r][Len(pc[r])].op = "set" /\ pc[r][Len(pc[r])].key = ERRORF
\* C30: setCell(coord, formula) takes the circular branch (value the tag,
\* error true) exactly when coord reaches itself through the edges of the
\* formulas then stored, coord's own being the new one
CycleDetectionExact ==
  FormulaBranchTaken(1) =>
    (pc[1][Len(pc[1])].val = True
       <=> LastEdit(1).coord
             \in ReachedFrom(FormulaEdges(doc[1], LastEdit(1).coord, LastEdit(1).text),
                             {LastEdit(1).coord}, {}))

(***************************************************************************)
(* Properties of the order of a recompute pass (SpecOrder).                *)
(***************************************************************************)
\* C29: on a sheet without cycles, when the recompute pass of a transaction
\* (of a local write or of a remote update) is over, every formula cell that the
\* changed cells reach through the graph holds the value of its formula over
\* the values then stored
RecomputeConsistent ==
  [][\A r \in Replicas :
       (/\ txq[r] # <<>> /\ txq'[r] # txq[r]
        /\ \A c \in CellKeys(doc'[r]) : ~hasCircularReference(graph'[r], c)) =>
         \A coord \in RangeOf(ToRecalculate(doc[r], graph'[r], ChangedCells(doc[r], txq[r][1]))) :
           HasFormula(doc'[r], coord) =>
             Field(doc'[r], coord, VALUE)
               = evaluate(doc'[r], Field(doc'[r], coord, FORMULA).s, coord)]_vars

\* the transaction at the head of replica r's queue is a remote merge that
\* changed nothing but the stored value of the formula cell coord
ValueOnlyMerge(r, coord) ==
  /\ txq[r] # <<>> /\ txq[r][1].origin = "provider"
  /\ ChangedCells(doc[r], txq[r][1]) = <<coord>>
  /\ \A i \in 1..Len(txq[r][1].changed) : txq[r][1].changed[i][2] = VALUE
  /\ HasFormula(doc[r], coord)
\* C31: when a remote merge has changed only the stored value of a formula
\* cell that is on no cycle, at the end of the recompute pass of that merge the
\* cell holds its formula evaluated over the local values
ChangedFormulaReevaluated ==
  [][\A r \in Replicas : \A coord \in {A1, B1, C1} :
       (ValueOnlyMerge(r, coord) /\ txq'[r] # txq[r]
          /\ ~hasCircularReference(graph'[r], coord)) =>
         Field(doc'[r], coord, VALUE)
           = evaluate(doc'[r], Field(doc'[r], coord, FORMULA).s, coord)]_vars
\* replica 1 has merged an update of replica 2 that carries no item but a
\* value of C1, and holds in C1 another value, its own evaluation of the
\* formula, which its pass wrote over the value received
ChangedFormulaReevaluatedReached ==
  /\ Idle(1) /\ last[1].type = "update" /\ last[1].from = 2
  /\ HasFormula(doc[1], C1)
  /\ \E it \in last[1].items :
       /\ last[1].items = {it}
       /\ it.key = VALUE /\ it.parent = CellMap(doc[1], C1)
       /\ LET own == LastOf(doc[1], it.parent, VALUE)
          IN /\ own[1] = 1 /\ doc[1].items[own].origin = it.id
             /\ doc[1].items[own].val # it.val
             /\ doc[1].items[own].val = evaluate(doc[1], SumA1B1, C1)

(***************************************************************************)
(* Write suppression of the recompute pass (SpecMerge).                    *)
(***************************************************************************)
\* the formula cells the pass of the transaction at the head of replica r's
\* queue re-evaluates, g being the graph the observer has rebuilt
Reevaluated(r, g) ==
  { c \in RangeOf(ToRecalculate(doc[r], g, ChangedCells(doc[r], txq[r][1]))) :
      HasFormula(doc[r], c) }
\* C32: in the step that runs the recompute pass of a transaction, a
\* re-evaluated cell gets a new value entry only if the value differs from the
\* one it held, and when every re-evaluated result equals the stored value the
\* pass writes nothing to the store, queues no transaction and so publishes no
\* update of its own
WriteSuppressed ==
  [][\A r \in Replicas :
       (txq[r] # <<>> /\ txq'[r] # txq[r]) =>
         /\ \A c \in Reevaluated(r, graph'[r]) :
              LastOf(doc'[r], CellMap(doc[r], c), VALUE) # LastOf(doc[r], CellMap(doc[r], c), VALUE)
                => Field(doc'[r], c, VALUE) # Field(doc[r], c, VALUE)
         /\ (\A c \in Reevaluated(r, graph'[r]) :
               evaluate(doc[r], Field(doc[r], c, FORMULA).s, c) = Field(doc[r], c, VALUE))
              => /\ doc'[r] = doc[r] /\ txq'[r] = Tail(txq[r])
                 /\ sent'[r] <= sent[r] + 1
                 /\ { x \in net' \ net : x.m.from = r } \subseteq Copies(Msg(r, "update", sent[r], TxUpdate(doc[r], txq[r][1]).items, TxUpdate(doc[r], txq[r][1]).ds, NoSv))]_vars
\* replica 2 has merged the update in which replica 1 set B1 to 20 and wrote
\* 20 as the value of C1; its pass has re-evaluated C1 to the 20 it holds, and
\* replica 2 has written and published nothing
WriteSuppressedReached ==
  /\ Idle(2) /\ last[2].type = "update" /\ last[2].from = 1
  /\ \E it \in last[2].items :
       it.key = VALUE /\ it.parent = CellMap(doc[2], C1) /\ it.val = Num(20)
  /\ HasFormula(doc[2], C1) /\ Field(doc[2], C1, VALUE) = Num(20)
  /\ evaluate(doc[2], SumA1B1, C1) = Num(20)
  /\ StateVector(doc[2])[2] = 0 /\ sent[2] = 0

(***************************************************************************)
(* clearCell (SpecEngine).                                                 *)
(***************************************************************************)
\* C33: when clearCell(X) has returned, X is not in the store and getCell(X)
\* is the blank default; no edge of the graph has X as its dependent; every
\* formula cell that refers to X is still among the dependents of X, and holds
\* its formula evaluated over the store, in which X counts as 0
ClearCellEffect ==
  (Returned(1) /\ LastEdit(1).op = "clear") =>
    LET X == LastEdit(1).coord
    IN /\ X \notin CellKeys(doc[1])
       /\ getCell(doc[1], X) = [value |-> Str(<<>>), formula |-> Null, error |-> False]
       /\ \A e \in Edges(graph[1]) : e[2] # X
       /\ \A c \in CellKeys(doc[1]) :
            X \in RefsOf(doc[1], c) =>
              /\ <<X, c>> \in Edges(graph[1])
              /\ NumericOf(doc[1], X) = 0
              /\ Field(doc[1], c, VALUE) = evaluate(doc[1], Field(doc[1], c, FORMULA).s, c)
\* A3 held 4 and A2 = A1 + A3 showed a number that counted it; A3 has been
\* cleared and A2 shows A1 alone
ClearCellEffectReached ==
  /\ Returned(1) /\ Len(edits[1]) >= 3
  /\ LastEdit(1) = Edit("clear", A3, <<>>)
  /\ edits[1][Len(edits[1]) - 1] = Edit("set", A3, <<"4">>)
  /\ Edit("set", A2, SumA1A3) \in RangeOf(edits[1])
  /\ HasFormula(doc[1], A2) /\ A3 \notin CellKeys(doc[1])
  /\ Field(doc[1], A2, VALUE) = evaluate(doc[1], SumA1A3, A2)
  /\ Dependents(graph[1], A3) = <<A2>>

(***************************************************************************)
(* Construction of the engine over a store with history (SpecJoin).        *)
(***************************************************************************)
\* the graph g has exactly the edges ref -> cell of the formulas of the store d
SeededFrom(d, g) ==
  Edges(g) = UNION { { <<ref, c>> : ref \in RefsOf(d, c) } : c \in CellKeys(d) }
\* every formula cell of d that refers to coord holds its formula evaluated over d
DependentsCurrent(d, coord) ==
  \A c \in CellKeys(d) :
    coord \in RefsOf(d, c) => Field(d, c, VALUE) = evaluate(d, Field(d, c, FORMULA).s, c)
\* C34: when an engine is constructed, its graph has exactly the edges
\* ref -> cell of the formulas the store holds; and when the first setCell on
\* the engine of replica 2, which was constructed over what the store held by
\* then, returns, every formula cell that refers to the cell written holds
\* its formula evaluated over the store
GraphSeededAtConstruction ==
  [][/\ \A r \in Replicas :
          ("observeDeep" \notin attached[r] /\ "observeDeep" \in attached'[r]) =>
            SeededFrom(doc[r], graph'[r])
     /\ (handling[2] = "edit" /\ Len(edits[2]) = 1 /\ pc'[2] = <<>> /\ txq'[2] = <<>>) =>
          DependentsCurrent(doc'[2], edits[2][1].coord)]_vars
\* replica 2 has merged C1 = A1 + B1 and B1 = 20 of replica 1, its engine has
\* been constructed, and its own A1 = 5 has made C1 25, written by itself
GraphSeededAtConstructionReached ==
  /\ Returned(2) /\ edits[2] = JoinScript[2]
  /\ HasFormula(doc[2], C1) /\ doc[2].items[LastOf(doc[2], CellMap(doc[2], C1), FORMULA)].id[1] = 1
  /\ Field(doc[2], C1, VALUE) = Num(25)
  /\ LastOf(doc[2], CellMap(doc[2], C1), VALUE)[1] = 2
  /\ Edges(graph[2]) = {<<A1, C1>>, <<B1, C1>>}

(***************************************************************************)
(* Termination of the graph traversals (SpecWalk).                         *)
(***************************************************************************)
NoRepeat(seq) == \A i, j \in DOMAIN seq : seq[i] = seq[j] => i = j
\* C35: on every graph over the cells, with cycles and self-loops or without,
\* the queue loop of processChangedCells empties its queue and
\* hasCircularReference returns, each within one iteration or call per edge
\* and one more; neither expands a cell twice; and they yield what the
\* recompute pass and the cycle check use
TraversalsTerminate ==
  range.done =>
    LET edges == Cardinality(Edges(range.g))
    IN /\ range.bfs.queue = <<>> /\ range.bfs.steps <= edges + 1
       /\ NoRepeat(range.bfs.order)
       /\ range.dfs.steps <= edges + 1
       /\ NoRepeat(range.dfs.order)
       /\ range.dfs.r = hasCircularReference(range.g, range.start)
       /\ range.dfs.visited = HasCircular(range.g, range.start, {}, {}).visited
       /\ RangeOf(Traverse(range.g, <<range.start>>, {}, <<>>))
            = UNION { RangeOf(Dependents(range.g, c)) : c \in RangeOf(range.bfs.order) }
\* the traversals have been applied to the graph A1 -> A1, A2 and A2 -> A3
\* and A3 -> A2 from A1: a self-loop and a cycle downstream
TraversalsTerminateReached ==
  /\ range.done /\ range.start = A1
  /\ range.g = [c \in GraphCells |-> IF c = A1 THEN <<A1, A2>> ELSE IF c = A2 THEN <<A3>> ELSE <<A2>>]
  /\ range.bfs.order = <<A1, A2, A3>> /\ range.dfs.r

(***************************************************************************)
(* The graph of a replica after the merge of a withdrawn formula           *)
(* (SpecRetract).                                                          *)
(***************************************************************************)
\* C36: when replica 2 has handled a remote update and is idle, every edge
\* ref -> cell of its graph is of a formula its store holds: the cell holds a
\* formula that refers to ref
NoEdgeOfRemovedFormula ==
  (Idle(2) /\ last[2].type = "update") =>
    \A e \in Edges(graph[2]) : HasFormula(doc[2], e[2]) /\ e[1] \in RefsOf(doc[2], e[2])

(***************************************************************************)
(* The value getCell reports (SpecEngine).                                 *)
(***************************************************************************)
\* C37: for every cell of the store that holds a value, getCell and
\* getAllCells report that value as it is stored; a formula cell whose stored
\* result is the number 0 is reported with the value 0
StoredValueReported ==
  \A c \in CellKeys(doc[1]) :
    Field(doc[1], c, VALUE) # Undef =>
      /\ getCell(doc[1], c).value = Field(doc[1], c, VALUE)
      /\ getAllCells(doc[1])[c].value = Field(doc[1], c, VALUE)

(***************************************************************************)
(* The join timer and destroy (SpecTeardown).                              *)
(***************************************************************************)
\* C38: a provider that has been destroyed publishes no message of any type; a
\* sync-request timer that is pending when destroy is called publishes nothing
\* when it fires
DestroyedPublishesNothing ==
  [][\A r \in Replicas : Destroyed(r) => \A c \in net' \ net : c.m.from # r]_vars

(***************************************************************************)
(* destroy and the pending subscribe of the constructor (SpecSubscribe).   *)
(***************************************************************************)
\* C39: once destroy() has run on a provider, before or after its subscribe
\* call has resolved, the provider has no 'message' listener registered and
\* connected is false, and a message that reaches it leaves the store as it is
DestroyBeatsSubscribe ==
  [][\A r \in Replicas :
       "update" \notin attached'[r] =>
         /\ "message" \notin attached'[r] /\ ~connected'[r]
         /\ (\E c \in net \ net' : c.to = r) =>
              SameCells(doc[r], doc'[r]) /\ StateVector(doc'[r]) = StateVector(doc[r])]_vars

(***************************************************************************)
(* The lifecycle of WebRTCPeerExchange (SpecPeerExchange).                 *)
(***************************************************************************)
\* the service has been started and stop() has returned since
Stopped == ~peerExchange.started /\ peerExchange.starts > 0

\* after stop() has returned no peer-exchange message is sent
StoppedSendsNothing == Stopped => peerExchange'.sends = peerExchange.sends

\* between start() and stop() a peer is handed to dialPeerWebRTC at most once
DialedOnce == \A p \in PeerIds : peerExchange.started' => peerExchange'.dialed[p] <= 1

\* no address of a peer is dialed while the node has a connection to the peer
DialsUnconnected ==
  \A p \in PeerIds :
    (peerExchange.started /\ peerExchange.started' /\ peerExchange'.calls[p] > peerExchange.calls[p])
      => ~\E c \in peerExchange.connections : c.remotePeer = p

\* C40: once stop() has returned, a 'connection:open' event of a WebRTC
\* connection makes the service send no peer-exchange message; and between a
\* start() and the next stop() every peer id received through peer exchange is
\* dialed at most once, and never while the node has a connection to it
PeerExchangeLifecycle ==
  [][StoppedSendsNothing /\ DialedOnce /\ DialsUnconnected]_vars

=============================================================================
